---- MODULE Spec2Model ----
(***************************************************************************)
(* A model of the PlebbitTippingV1 contract                                *)
(* (src/contracts/PlebbitTippingV1.sol): the ledger state, the tip write   *)
(* path, the moderator setters and the paginated queries; and of the       *)
(* client of src/js-api/src/plebbitTippingV1.ts: its comment cache, its    *)
(* debounced total requests and its timers.                                *)
(*                                                                         *)
(* Machine words are scaled down: a uint256 is WordBits wide and a uint96  *)
(* is Uint96Bits wide.  Solidity 0.8 arithmetic is checked (an overflow    *)
(* reverts the call) while the explicit cast uint96(x) keeps the low bits. *)
(***************************************************************************)
EXTENDS Integers, Sequences, FiniteSets, TLC

VARIABLES
    tips,                    \* mapping(bytes32 => Tip[])
    tipsTotalAmounts,        \* mapping(bytes32 => uint256)
    senderTipsTotalAmounts,  \* mapping(bytes32 => uint256)
    minimumTipAmount,        \* uint256
    feePercent,              \* uint256
    roles,                   \* AccessControl: the set of <<role, account>> held
    balances,                \* the chain's ETH balance of every account
    events,                  \* the TipEvent log of the contract
    last,                    \* the last call made: its arguments and its outcome
    committed,               \* the tip calls that succeeded, in order
    cache,                   \* PlebbitTippingV1Instance.cache: { maxAge }
    comments,                \* .comments: cache key -> cached comment
    pendingBulkRequests,     \* .pendingBulkRequests: cache key -> BulkRequest[]
    debouncedBulkCalls,      \* .debouncedBulkCalls: cache key -> debounce timer
    cacheExpirationTimers,   \* .cacheExpirationTimers: cache key -> expiry timer
    mockBulkCallCount,       \* .mockBulkCallCount
    timers,                  \* the timers set by setTimeout, not fired nor cleared
    inFlight,                \* the executeBulkCall runs awaiting the contract
    clientCalls,             \* the client calls made and the state of their promises
    age,                     \* the time since each cached comment was written
    transaction,             \* the TipTransaction createTip returned, if any
    sends                    \* the send() calls made on it and how far each has run

apiVars == <<cache, comments, pendingBulkRequests, debouncedBulkCalls,
             cacheExpirationTimers, mockBulkCallCount, timers, inFlight, clientCalls, age>>

tipVars == <<transaction, sends>>

vars == <<tips, tipsTotalAmounts, senderTipsTotalAmounts, minimumTipAmount,
          feePercent, roles, balances, events, last, committed,
          cache, comments, pendingBulkRequests, debouncedBulkCalls,
          cacheExpirationTimers, mockBulkCallCount, timers, inFlight, clientCalls, age,
          transaction, sends>>

----------------------------------------------------------------------------
\* Bounds of the model.

\* width of a uint256, scaled
WordBits == 10
\* width of a uint96, scaled
Uint96Bits == 4
\* the number of tip calls of a run of the payment scenario
MaxTips == 2
\* the number of tip calls of a run of the ledger scenario
MaxLedgerTips == 2
\* the number of tip calls of a run of the query scenario
MaxReadTips == 3
MaxTotalsTips == 2
MaxQueryTips == 2
\* the number of tip calls of a run of the self-payment scenario
MaxSelfTips == 2
\* the number of client calls and of tips of a run of the client scenario
MaxApiCalls == 3
MaxApiTips == 1
\* the number of send() calls of a run of the send scenario
MaxSends == 2

UINT256_MAX == 2^WordBits - 1
UINT96_MAX == 2^Uint96Bits - 1

----------------------------------------------------------------------------
\* Accounts, comment ids and amounts.

ADMIN == "admin"
MOD == "mod"
USER1 == "user1"
USER2 == "user2"
\* a contract account without a payable receive/fallback: it rejects ETH
REJECTOR == "rejector"
\* the PlebbitTippingV1 contract itself (no receive function either)
THIS == "this"

Address == {ADMIN, MOD, USER1, USER2, REJECTOR, THIS}
Rejecting == {REJECTOR, THIS}

\* a bytes32, scaled to two bytes; ZeroHash is ethers.ZeroHash
ZeroHash == <<0, 0>>
Cid1 == <<0, 1>>
Cid == {ZeroHash, Cid1}

\* an amount that does not fit a uint96
BigAmount == UINT96_MAX + 5
Amounts == {0, 1, 10, BigAmount}
InitialBalance == 3 * (UINT96_MAX + 1)

DEFAULT_ADMIN_ROLE == "DEFAULT_ADMIN_ROLE"
MODERATOR_ROLE == "MODERATOR_ROLE"

----------------------------------------------------------------------------
\* Key derivation.  keccak256 is taken collision free: a digest is its
\* preimage, tagged.

keccak256(bytes) == [keccak256 |-> bytes]

\* abi.encodePacked(bytes32, address): the fields back to back, unpadded
encodePacked(a, b) == a \o <<b>>

\* abi.encode(bytes32, address, bytes32, address): every field in a full word,
\* an address left-padded with zero bytes
encode(a, b, c, d) == a \o <<0, b>> \o c \o <<0, d>>

\* a sender key that leaves the sender out
senderTipKeyNoSender(senderCommentCid, sender, recipientCommentCid, feeRecipient) ==
    keccak256(senderCommentCid \o recipientCommentCid \o <<feeRecipient>>)

\* a tip key that leaves the fee recipient out
tipKeyNoFeeRecipient(recipientCommentCid, feeRecipient) ==
    keccak256(recipientCommentCid)

tipKeyOf(recipientCommentCid, feeRecipient) ==
    keccak256(encodePacked(recipientCommentCid, feeRecipient))

senderTipKeyOf(senderCommentCid, sender, recipientCommentCid, feeRecipient) ==
    keccak256(encode(senderCommentCid, sender, recipientCommentCid, feeRecipient))

\* A mapping holds the slots written so far; every other slot reads as the
\* zero value of its type.
Load(mapping, key, zero) == IF key \in DOMAIN mapping THEN mapping[key] ELSE zero

Store(mapping, key, value) ==
    [k \in DOMAIN mapping \cup {key} |-> IF k = key THEN value ELSE mapping[k]]

EmptyMapping == [k \in {} |-> 0]

----------------------------------------------------------------------------
\* The contract's storage and the chain state a call works on.

World ==
    [tips |-> tips, tipsTotalAmounts |-> tipsTotalAmounts,
     senderTipsTotalAmounts |-> senderTipsTotalAmounts,
     minimumTipAmount |-> minimumTipAmount, feePercent |-> feePercent,
     balances |-> balances, events |-> events]

\* a call that reverts leaves the state it started from
Revert(W, reason) == [status |-> reason, world |-> W]

\* a record whose sender and feeRecipient are swapped
TipStructSwapped(amount, feeRecipient, sender, senderCommentCid) ==
    [amount |-> amount % (UINT96_MAX + 1), feeRecipient |-> sender,
     sender |-> feeRecipient, senderCommentCid |-> senderCommentCid]

\* struct Tip, built as the push builds it: uint96(amount) keeps the low bits
TipStruct(amount, feeRecipient, sender, senderCommentCid) ==
    [amount |-> amount % (UINT96_MAX + 1), feeRecipient |-> feeRecipient,
     sender |-> sender, senderCommentCid |-> senderCommentCid]

\* a fee that divides before it multiplies
TipFeeDivFirst(amount, percent) == (amount \div 100) * percent

\* uint256 fee = (amount * feePercent) / 100
TipFee(amount, percent) == (amount * percent) \div 100

\* the two checks in the other order
tipRequireMismatchFirst(W, value, amount) ==
    IF value # amount THEN "Sent value doesn't match amount"
    ELSE IF value < W.minimumTipAmount THEN "Tip amount is too low"
    ELSE "ok"

\* the second check left out
tipRequireNoMismatch(W, value, amount) ==
    IF value < W.minimumTipAmount THEN "Tip amount is too low" ELSE "ok"

\* require(msg.value >= minimumTipAmount, ...); require(msg.value == amount, ...)
tipRequire(W, value, amount) ==
    IF ~(value >= W.minimumTipAmount) THEN "Tip amount is too low"
    ELSE IF ~(value = amount) THEN "Sent value doesn't match amount"
    ELSE "ok"

\* a payment whose failure is not propagated (send, its result ignored)
transferUnchecked(W, to, value) ==
    IF to \in Rejecting \/ W.balances[THIS] < value
    THEN [ok |-> TRUE, world |-> W]
    ELSE [ok |-> TRUE,
          world |-> [W EXCEPT !.balances =
                        [[@ EXCEPT ![THIS] = @ - value] EXCEPT ![to] = @ + value]]]

\* a payment that leaves one wei of it in the contract
transferKeepsOne(W, to, value) ==
    IF to \in Rejecting \/ W.balances[THIS] < value
    THEN [ok |-> FALSE, world |-> W]
    ELSE [ok |-> TRUE,
          world |-> [W EXCEPT !.balances =
                        IF value = 0 THEN @
                        ELSE [[@ EXCEPT ![THIS] = @ - (value - 1)]
                                 EXCEPT ![to] = @ + (value - 1)]]]

\* payable(to).transfer(value): THIS pays `to`; fails when `to` rejects ETH
transfer(W, to, value) ==
    IF to \in Rejecting \/ W.balances[THIS] < value
    THEN [ok |-> FALSE, world |-> W]
    ELSE [ok |-> TRUE,
          world |-> [W EXCEPT !.balances =
                        [[@ EXCEPT ![THIS] = @ - value] EXCEPT ![to] = @ + value]]]

\* tip with the total of the key assigned, not added to
tipAssignsTotal(W, sender, value, recipient, amount, feeRecipient, senderCommentCid, recipientCommentCid) ==
    LET W0 == [W EXCEPT !.balances =
                   [[@ EXCEPT ![sender] = @ - value] EXCEPT ![THIS] = @ + value]]
        fee == TipFee(amount, W.feePercent)
        receivedAmount == amount - fee
        t1 == transfer(W0, feeRecipient, fee)
        t2 == transfer(t1.world, recipient, receivedAmount)
        tipKey == tipKeyOf(recipientCommentCid, feeRecipient)
        senderTipKey ==
            senderTipKeyOf(senderCommentCid, sender, recipientCommentCid, feeRecipient)
        W3 == [t2.world EXCEPT
                 !.tips = Store(@, tipKey,
                     Append(Load(@, tipKey, <<>>),
                            TipStruct(amount, feeRecipient, sender, senderCommentCid))),
                 !.tipsTotalAmounts = Store(@, tipKey, amount),
                 !.senderTipsTotalAmounts =
                     Store(@, senderTipKey, Load(@, senderTipKey, 0) + amount),
                 !.events = Append(@, [sender |-> sender, recipient |-> recipient,
                                       amount |-> amount, feeRecipient |-> feeRecipient,
                                       recipientCommentCid |-> recipientCommentCid,
                                       senderCommentCid |-> senderCommentCid])]
    IN  IF tipRequire(W, value, amount) # "ok"
        THEN Revert(W, tipRequire(W, value, amount))
        ELSE IF amount * W.feePercent > UINT256_MAX THEN Revert(W, "Panic")
        ELSE IF fee > amount THEN Revert(W, "Panic")
        ELSE IF ~t1.ok THEN Revert(W, "TransferFailed")
        ELSE IF ~t2.ok THEN Revert(W, "TransferFailed")
        ELSE IF Load(W.tipsTotalAmounts, tipKey, 0) + amount > UINT256_MAX
             THEN Revert(W, "Panic")
        ELSE IF Load(W.senderTipsTotalAmounts, senderTipKey, 0) + amount > UINT256_MAX
             THEN Revert(W, "Panic")
        ELSE [status |-> "ok", world |-> W3]

\* tip with the sender total written from the amount alone, as an update
\* that lost the value it read
tipLosesSenderTotal(W, sender, value, recipient, amount, feeRecipient, senderCommentCid, recipientCommentCid) ==
    LET W0 == [W EXCEPT !.balances =
                   [[@ EXCEPT ![sender] = @ - value] EXCEPT ![THIS] = @ + value]]
        fee == TipFee(amount, W.feePercent)
        receivedAmount == amount - fee
        t1 == transfer(W0, feeRecipient, fee)
        t2 == transfer(t1.world, recipient, receivedAmount)
        tipKey == tipKeyOf(recipientCommentCid, feeRecipient)
        senderTipKey ==
            senderTipKeyOf(senderCommentCid, sender, recipientCommentCid, feeRecipient)
        W3 == [t2.world EXCEPT
                 !.tips = Store(@, tipKey,
                     Append(Load(@, tipKey, <<>>),
                            TipStruct(amount, feeRecipient, sender, senderCommentCid))),
                 !.tipsTotalAmounts = Store(@, tipKey, Load(@, tipKey, 0) + amount),
                 !.senderTipsTotalAmounts = Store(@, senderTipKey, amount),
                 !.events = Append(@, [sender |-> sender, recipient |-> recipient,
                                       amount |-> amount, feeRecipient |-> feeRecipient,
                                       recipientCommentCid |-> recipientCommentCid,
                                       senderCommentCid |-> senderCommentCid])]
    IN  IF tipRequire(W, value, amount) # "ok"
        THEN Revert(W, tipRequire(W, value, amount))
        ELSE IF amount * W.feePercent > UINT256_MAX THEN Revert(W, "Panic")
        ELSE IF fee > amount THEN Revert(W, "Panic")
        ELSE IF ~t1.ok THEN Revert(W, "TransferFailed")
        ELSE IF ~t2.ok THEN Revert(W, "TransferFailed")
        ELSE IF Load(W.tipsTotalAmounts, tipKey, 0) + amount > UINT256_MAX
             THEN Revert(W, "Panic")
        ELSE IF Load(W.senderTipsTotalAmounts, senderTipKey, 0) + amount > UINT256_MAX
             THEN Revert(W, "Panic")
        ELSE [status |-> "ok", world |-> W3]

\* tip emitting its two comment ids in the order of its parameters, not in
\* the order of the event's fields
tipEmitsCidsSwapped(W, sender, value, recipient, amount, feeRecipient, senderCommentCid, recipientCommentCid) ==
    LET W0 == [W EXCEPT !.balances =
                   [[@ EXCEPT ![sender] = @ - value] EXCEPT ![THIS] = @ + value]]
        fee == TipFee(amount, W.feePercent)
        receivedAmount == amount - fee
        t1 == transfer(W0, feeRecipient, fee)
        t2 == transfer(t1.world, recipient, receivedAmount)
        tipKey == tipKeyOf(recipientCommentCid, feeRecipient)
        senderTipKey ==
            senderTipKeyOf(senderCommentCid, sender, recipientCommentCid, feeRecipient)
        W3 == [t2.world EXCEPT
                 !.tips = Store(@, tipKey,
                     Append(Load(@, tipKey, <<>>),
                            TipStruct(amount, feeRecipient, sender, senderCommentCid))),
                 !.tipsTotalAmounts = Store(@, tipKey, Load(@, tipKey, 0) + amount),
                 !.senderTipsTotalAmounts =
                     Store(@, senderTipKey, Load(@, senderTipKey, 0) + amount),
                 !.events = Append(@, [sender |-> sender, recipient |-> recipient,
                                       amount |-> amount, feeRecipient |-> feeRecipient,
                                       recipientCommentCid |-> senderCommentCid,
                                       senderCommentCid |-> recipientCommentCid])]
    IN  IF tipRequire(W, value, amount) # "ok"
        THEN Revert(W, tipRequire(W, value, amount))
        ELSE IF amount * W.feePercent > UINT256_MAX THEN Revert(W, "Panic")
        ELSE IF fee > amount THEN Revert(W, "Panic")
        ELSE IF ~t1.ok THEN Revert(W, "TransferFailed")
        ELSE IF ~t2.ok THEN Revert(W, "TransferFailed")
        ELSE IF Load(W.tipsTotalAmounts, tipKey, 0) + amount > UINT256_MAX
             THEN Revert(W, "Panic")
        ELSE IF Load(W.senderTipsTotalAmounts, senderTipKey, 0) + amount > UINT256_MAX
             THEN Revert(W, "Panic")
        ELSE [status |-> "ok", world |-> W3]

\* tip keeping a sender total only for tips made from a comment
tipSenderTotalOnlyWithComment(W, sender, value, recipient, amount, feeRecipient, senderCommentCid, recipientCommentCid) ==
    LET W0 == [W EXCEPT !.balances =
                   [[@ EXCEPT ![sender] = @ - value] EXCEPT ![THIS] = @ + value]]
        fee == TipFee(amount, W.feePercent)
        receivedAmount == amount - fee
        t1 == transfer(W0, feeRecipient, fee)
        t2 == transfer(t1.world, recipient, receivedAmount)
        tipKey == tipKeyOf(recipientCommentCid, feeRecipient)
        senderTipKey ==
            senderTipKeyOf(senderCommentCid, sender, recipientCommentCid, feeRecipient)
        W3 == [t2.world EXCEPT
                 !.tips = Store(@, tipKey,
                     Append(Load(@, tipKey, <<>>),
                            TipStruct(amount, feeRecipient, sender, senderCommentCid))),
                 !.tipsTotalAmounts = Store(@, tipKey, Load(@, tipKey, 0) + amount),
                 !.senderTipsTotalAmounts =
                     IF senderCommentCid = ZeroHash THEN @
                     ELSE Store(@, senderTipKey, Load(@, senderTipKey, 0) + amount),
                 !.events = Append(@, [sender |-> sender, recipient |-> recipient,
                                       amount |-> amount, feeRecipient |-> feeRecipient,
                                       recipientCommentCid |-> recipientCommentCid,
                                       senderCommentCid |-> senderCommentCid])]
    IN  IF tipRequire(W, value, amount) # "ok"
        THEN Revert(W, tipRequire(W, value, amount))
        ELSE IF amount * W.feePercent > UINT256_MAX THEN Revert(W, "Panic")
        ELSE IF fee > amount THEN Revert(W, "Panic")
        ELSE IF ~t1.ok THEN Revert(W, "TransferFailed")
        ELSE IF ~t2.ok THEN Revert(W, "TransferFailed")
        ELSE IF Load(W.tipsTotalAmounts, tipKey, 0) + amount > UINT256_MAX
             THEN Revert(W, "Panic")
        ELSE IF Load(W.senderTipsTotalAmounts, senderTipKey, 0) + amount > UINT256_MAX
             THEN Revert(W, "Panic")
        ELSE [status |-> "ok", world |-> W3]

\* function tip(...) external payable, called by `sender` with msg.value `value`
tip(W, sender, value, recipient, amount, feeRecipient, senderCommentCid, recipientCommentCid) ==
    LET W0 == [W EXCEPT !.balances =
                   [[@ EXCEPT ![sender] = @ - value] EXCEPT ![THIS] = @ + value]]
        fee == TipFee(amount, W.feePercent)
        receivedAmount == amount - fee
        t1 == transfer(W0, feeRecipient, fee)
        t2 == transfer(t1.world, recipient, receivedAmount)
        tipKey == tipKeyOf(recipientCommentCid, feeRecipient)
        senderTipKey ==
            senderTipKeyOf(senderCommentCid, sender, recipientCommentCid, feeRecipient)
        W3 == [t2.world EXCEPT
                 !.tips = Store(@, tipKey,
                     Append(Load(@, tipKey, <<>>),
                            TipStruct(amount, feeRecipient, sender, senderCommentCid))),
                 !.tipsTotalAmounts = Store(@, tipKey, Load(@, tipKey, 0) + amount),
                 !.senderTipsTotalAmounts =
                     Store(@, senderTipKey, Load(@, senderTipKey, 0) + amount),
                 !.events = Append(@, [sender |-> sender, recipient |-> recipient,
                                       amount |-> amount, feeRecipient |-> feeRecipient,
                                       recipientCommentCid |-> recipientCommentCid,
                                       senderCommentCid |-> senderCommentCid])]
    IN  IF tipRequire(W, value, amount) # "ok"
        THEN Revert(W, tipRequire(W, value, amount))
        ELSE IF amount * W.feePercent > UINT256_MAX THEN Revert(W, "Panic")
        ELSE IF fee > amount THEN Revert(W, "Panic")
        ELSE IF ~t1.ok THEN Revert(W, "TransferFailed")
        ELSE IF ~t2.ok THEN Revert(W, "TransferFailed")
        ELSE IF Load(W.tipsTotalAmounts, tipKey, 0) + amount > UINT256_MAX
             THEN Revert(W, "Panic")
        ELSE IF Load(W.senderTipsTotalAmounts, senderTipKey, 0) + amount > UINT256_MAX
             THEN Revert(W, "Panic")
        ELSE [status |-> "ok", world |-> W3]

\* the state a call leaves
Commit(W) ==
    /\ tips' = W.tips
    /\ tipsTotalAmounts' = W.tipsTotalAmounts
    /\ senderTipsTotalAmounts' = W.senderTipsTotalAmounts
    /\ minimumTipAmount' = W.minimumTipAmount
    /\ feePercent' = W.feePercent
    /\ balances' = W.balances
    /\ events' = W.events

----------------------------------------------------------------------------
\* Actions.

\* constructor(_minimumTipAmount, _feePercent), deployed by ADMIN
CtorMinimumTipAmounts == {1, 10}
CtorFeePercents == {5, 150}

\* no TipTransaction has been created
NoTransaction == <<>>

\* new PlebbitTippingV1Instance(rpcUrls, cache, contractAddress)
CacheMaxAges == {150}

ApiInit ==
    /\ cache \in [maxAge : CacheMaxAges]
    /\ comments = EmptyMapping
    /\ pendingBulkRequests = EmptyMapping
    /\ debouncedBulkCalls = EmptyMapping
    /\ cacheExpirationTimers = EmptyMapping
    /\ mockBulkCallCount = 0
    /\ timers = {}
    /\ inFlight = {}
    /\ clientCalls = <<>>
    /\ age = EmptyMapping
    /\ transaction = NoTransaction
    /\ sends = <<>>

Init ==
    /\ ApiInit
    /\ tips = EmptyMapping
    /\ tipsTotalAmounts = EmptyMapping
    /\ senderTipsTotalAmounts = EmptyMapping
    /\ minimumTipAmount \in CtorMinimumTipAmounts
    /\ feePercent \in CtorFeePercents
    /\ roles = {<<DEFAULT_ADMIN_ROLE, ADMIN>>}
    /\ balances = [a \in Address |-> IF a \in {USER1, USER2} THEN InitialBalance ELSE 0]
    /\ events = <<>>
    /\ last = [op |-> "constructor", status |-> "ok"]
    /\ committed = <<>>

Tip(sender, value, recipient, amount, feeRecipient, senderCommentCid, recipientCommentCid) ==
    /\ balances[sender] >= value
    /\ LET res == tip(World, sender, value, recipient, amount, feeRecipient,
                      senderCommentCid, recipientCommentCid)
       IN  /\ Commit(res.world)
           /\ last' = [op |-> "tip", status |-> res.status, sender |-> sender,
                       value |-> value, recipient |-> recipient, amount |-> amount,
                       feeRecipient |-> feeRecipient,
                       senderCommentCid |-> senderCommentCid,
                       recipientCommentCid |-> recipientCommentCid]
           /\ committed' = IF res.status = "ok" THEN Append(committed, last')
                            ELSE committed
    /\ UNCHANGED roles
    /\ UNCHANGED apiVars
    /\ UNCHANGED tipVars

\* modifier onlyRole(role)
hasRole(role, account) == <<role, account>> \in roles

\* setMinimumTipAmount without its modifier
setMinimumTipAmountUnguarded(W, sender, _minimumTipAmount) ==
    [status |-> "ok", world |-> [W EXCEPT !.minimumTipAmount = _minimumTipAmount]]

\* function setMinimumTipAmount(uint256) external onlyRole(MODERATOR_ROLE)
setMinimumTipAmount(W, sender, _minimumTipAmount) ==
    IF ~hasRole(MODERATOR_ROLE, sender) THEN Revert(W, "AccessControlUnauthorizedAccount")
    ELSE [status |-> "ok", world |-> [W EXCEPT !.minimumTipAmount = _minimumTipAmount]]

\* setFeePercent writing the other configuration value
setFeePercentWritesMinimum(W, sender, _feePercent) ==
    IF ~hasRole(MODERATOR_ROLE, sender) THEN Revert(W, "AccessControlUnauthorizedAccount")
    ELSE IF ~(_feePercent >= 1 /\ _feePercent <= 20)
         THEN Revert(W, "Fee percent must be between 1 and 20")
    ELSE [status |-> "ok", world |-> [W EXCEPT !.minimumTipAmount = _feePercent]]

\* setFeePercent with the lower end of the range left out of its require
setFeePercentNoLowerEnd(W, sender, _feePercent) ==
    IF ~hasRole(MODERATOR_ROLE, sender) THEN Revert(W, "AccessControlUnauthorizedAccount")
    ELSE IF ~(_feePercent <= 20)
         THEN Revert(W, "Fee percent must be between 1 and 20")
    ELSE [status |-> "ok", world |-> [W EXCEPT !.feePercent = _feePercent]]

\* function setFeePercent(uint256) external onlyRole(MODERATOR_ROLE)
setFeePercent(W, sender, _feePercent) ==
    IF ~hasRole(MODERATOR_ROLE, sender) THEN Revert(W, "AccessControlUnauthorizedAccount")
    ELSE IF ~(_feePercent >= 1 /\ _feePercent <= 20)
         THEN Revert(W, "Fee percent must be between 1 and 20")
    ELSE [status |-> "ok", world |-> [W EXCEPT !.feePercent = _feePercent]]

SetMinimumTipAmount(sender, _minimumTipAmount) ==
    /\ LET res == setMinimumTipAmount(World, sender, _minimumTipAmount)
       IN  /\ Commit(res.world)
           /\ last' = [op |-> "setMinimumTipAmount", status |-> res.status,
                       sender |-> sender, value |-> _minimumTipAmount]
    /\ UNCHANGED <<roles, committed>>
    /\ UNCHANGED apiVars
    /\ UNCHANGED tipVars

SetFeePercent(sender, _feePercent) ==
    /\ LET res == setFeePercent(World, sender, _feePercent)
       IN  /\ Commit(res.world)
           /\ last' = [op |-> "setFeePercent", status |-> res.status,
                       sender |-> sender, value |-> _feePercent]
    /\ UNCHANGED <<roles, committed>>
    /\ UNCHANGED apiVars
    /\ UNCHANGED tipVars

\* grantRole without its modifier
GrantRoleUnguarded(sender, role, account) ==
    /\ roles' = roles \cup {<<role, account>>}
    /\ last' = [op |-> "grantRole", status |-> "ok", sender |-> sender,
                role |-> role, account |-> account]
    /\ UNCHANGED <<tips, tipsTotalAmounts, senderTipsTotalAmounts, minimumTipAmount,
                   feePercent, balances, events, committed>>
    /\ UNCHANGED apiVars
    /\ UNCHANGED tipVars

\* AccessControl.grantRole(role, account) external onlyRole(getRoleAdmin(role));
\* getRoleAdmin is DEFAULT_ADMIN_ROLE for every role
GrantRole(sender, role, account) ==
    /\ IF hasRole(DEFAULT_ADMIN_ROLE, sender)
       THEN /\ roles' = roles \cup {<<role, account>>}
            /\ last' = [op |-> "grantRole", status |-> "ok", sender |-> sender,
                        role |-> role, account |-> account]
       ELSE /\ roles' = roles
            /\ last' = [op |-> "grantRole", status |-> "AccessControlUnauthorizedAccount",
                        sender |-> sender, role |-> role, account |-> account]
    /\ UNCHANGED <<tips, tipsTotalAmounts, senderTipsTotalAmounts, minimumTipAmount,
                   feePercent, balances, events, committed>>
    /\ UNCHANGED apiVars
    /\ UNCHANGED tipVars

\* AccessControl.revokeRole(role, account) external onlyRole(getRoleAdmin(role))
RevokeRole(sender, role, account) ==
    /\ IF hasRole(DEFAULT_ADMIN_ROLE, sender)
       THEN /\ roles' = roles \ {<<role, account>>}
            /\ last' = [op |-> "revokeRole", status |-> "ok", sender |-> sender,
                        role |-> role, account |-> account]
       ELSE /\ roles' = roles
            /\ last' = [op |-> "revokeRole", status |-> "AccessControlUnauthorizedAccount",
                        sender |-> sender, role |-> role, account |-> account]
    /\ UNCHANGED <<tips, tipsTotalAmounts, senderTipsTotalAmounts, minimumTipAmount,
                   feePercent, balances, events, committed>>
    /\ UNCHANGED apiVars
    /\ UNCHANGED tipVars

\* AccessControl.renounceRole(role, callerConfirmation) external: the caller
\* gives up its own role
RenounceRole(sender, role, callerConfirmation) ==
    /\ IF callerConfirmation # sender
       THEN /\ roles' = roles
            /\ last' = [op |-> "renounceRole", status |-> "AccessControlBadConfirmation",
                        sender |-> sender, role |-> role,
                        account |-> callerConfirmation]
       ELSE /\ roles' = roles \ {<<role, sender>>}
            /\ last' = [op |-> "renounceRole", status |-> "ok", sender |-> sender,
                        role |-> role, account |-> callerConfirmation]
    /\ UNCHANGED <<tips, tipsTotalAmounts, senderTipsTotalAmounts, minimumTipAmount,
                   feePercent, balances, events, committed>>
    /\ UNCHANGED apiVars
    /\ UNCHANGED tipVars

\* function getSenderTipsTotalAmount(...) external view
RECURSIVE senderTotalLoop(_, _, _, _, _, _, _)
senderTotalLoop(W, senderCommentCid, sender, recipientCommentCid, feeRecipients, i, total) ==
    IF ~(i <= Len(feeRecipients)) THEN [status |-> "ok", result |-> total]
    ELSE LET senderTipKey == senderTipKeyOf(senderCommentCid, sender,
                                            recipientCommentCid, feeRecipients[i])
             sum == total + Load(W.senderTipsTotalAmounts, senderTipKey, 0)
         IN  IF sum > UINT256_MAX THEN [status |-> "Panic", result |-> <<>>]
             ELSE senderTotalLoop(W, senderCommentCid, sender, recipientCommentCid,
                                  feeRecipients, i + 1, sum)

getSenderTipsTotalAmount(W, senderCommentCid, sender, recipientCommentCid, feeRecipients) ==
    senderTotalLoop(W, senderCommentCid, sender, recipientCommentCid, feeRecipients, 1, 0)

\* the zero value of a Tip, as new Tip[](n) fills a fresh array
ZeroAddress == "0x0"
ZeroTip ==
    [amount |-> 0, feeRecipient |-> ZeroAddress, sender |-> ZeroAddress,
     senderCommentCid |-> ZeroHash]

\* the counting loop of getTips and getTipsAmounts: totalTips, or -1 when the
\* checked addition overflows
RECURSIVE countTips(_, _, _, _, _)
countTips(W, recipientCommentCid, feeRecipients, i, totalTips) ==
    IF ~(i <= Len(feeRecipients)) THEN totalTips
    ELSE LET tipKey == tipKeyOf(recipientCommentCid, feeRecipients[i])
             sum == totalTips + Len(Load(W.tips, tipKey, <<>>))
         IN  IF sum > UINT256_MAX THEN 0 - 1
             ELSE countTips(W, recipientCommentCid, feeRecipients, i + 1, sum)

\* the copying loops with the offset test off by one: the record at position
\* offset is skipped too
RECURSIVE getTipsLoopSkipsOffset(_, _, _, _, _, _, _, _, _, _)
getTipsLoopSkipsOffset(W, recipientCommentCid, feeRecipients, offset, maxResults, i, j, currentIndex, resultIndex, result) ==
    IF ~(i <= Len(feeRecipients) /\ resultIndex < maxResults) THEN result
    ELSE LET tipArray == Load(W.tips, tipKeyOf(recipientCommentCid, feeRecipients[i]), <<>>)
         IN  IF ~(j <= Len(tipArray) /\ resultIndex < maxResults)
             THEN getTipsLoopSkipsOffset(W, recipientCommentCid, feeRecipients, offset,
                                         maxResults, i + 1, 1, currentIndex, resultIndex,
                                         result)
             ELSE IF currentIndex > offset
             THEN getTipsLoopSkipsOffset(W, recipientCommentCid, feeRecipients, offset,
                                         maxResults, i, j + 1, currentIndex + 1,
                                         resultIndex + 1,
                                         [result EXCEPT ![resultIndex + 1] = tipArray[j]])
             ELSE getTipsLoopSkipsOffset(W, recipientCommentCid, feeRecipients, offset,
                                         maxResults, i, j + 1, currentIndex + 1,
                                         resultIndex, result)

\* the copying loops of getTips: i and j are the loop counters (from 1 here),
\* result is the array allocated before the loops
RECURSIVE getTipsLoop(_, _, _, _, _, _, _, _, _, _)
getTipsLoop(W, recipientCommentCid, feeRecipients, offset, maxResults, i, j, currentIndex, resultIndex, result) ==
    IF ~(i <= Len(feeRecipients) /\ resultIndex < maxResults) THEN result
    ELSE LET tipArray == Load(W.tips, tipKeyOf(recipientCommentCid, feeRecipients[i]), <<>>)
         IN  IF ~(j <= Len(tipArray) /\ resultIndex < maxResults)
             THEN getTipsLoop(W, recipientCommentCid, feeRecipients, offset, maxResults,
                              i + 1, 1, currentIndex, resultIndex, result)
             ELSE IF currentIndex >= offset
             THEN getTipsLoop(W, recipientCommentCid, feeRecipients, offset, maxResults,
                              i, j + 1, currentIndex + 1, resultIndex + 1,
                              [result EXCEPT ![resultIndex + 1] = tipArray[j]])
             ELSE getTipsLoop(W, recipientCommentCid, feeRecipients, offset, maxResults,
                              i, j + 1, currentIndex + 1, resultIndex, result)

\* getTips with offset + limit evaluated before offset is compared with the
\* count
getTipsAddFirst(W, recipientCommentCid, feeRecipients, offset, limit) ==
    LET totalTips == countTips(W, recipientCommentCid, feeRecipients, 1, 0)
        maxResults == IF offset + limit > totalTips THEN totalTips - offset ELSE limit
    IN  IF totalTips < 0 THEN [status |-> "Panic", result |-> <<>>]
        ELSE IF offset + limit > UINT256_MAX THEN [status |-> "Panic", result |-> <<>>]
        ELSE IF offset >= totalTips THEN [status |-> "ok", result |-> <<>>]
        ELSE [status |-> "ok",
              result |-> getTipsLoop(W, recipientCommentCid, feeRecipients, offset,
                                     maxResults, 1, 1, 0, 0,
                                     [n \in 1..maxResults |-> ZeroTip])]

\* function getTips(...) external view returns (Tip[] memory)
getTips(W, recipientCommentCid, feeRecipients, offset, limit) ==
    LET totalTips == countTips(W, recipientCommentCid, feeRecipients, 1, 0)
        maxResults == IF offset + limit > totalTips THEN totalTips - offset ELSE limit
    IN  IF totalTips < 0 THEN [status |-> "Panic", result |-> <<>>]
        ELSE IF offset >= totalTips THEN [status |-> "ok", result |-> <<>>]
        ELSE IF offset + limit > UINT256_MAX THEN [status |-> "Panic", result |-> <<>>]
        ELSE [status |-> "ok",
              result |-> getTipsLoop(W, recipientCommentCid, feeRecipients, offset,
                                     maxResults, 1, 1, 0, 0,
                                     [n \in 1..maxResults |-> ZeroTip])]

\* the copying loops of getTipsAmounts
RECURSIVE getTipsAmountsLoop(_, _, _, _, _, _, _, _, _, _)
getTipsAmountsLoop(W, recipientCommentCid, feeRecipients, offset, maxResults, i, j, currentIndex, resultIndex, amounts) ==
    IF ~(i <= Len(feeRecipients) /\ resultIndex < maxResults) THEN amounts
    ELSE LET tipArray == Load(W.tips, tipKeyOf(recipientCommentCid, feeRecipients[i]), <<>>)
         IN  IF ~(j <= Len(tipArray) /\ resultIndex < maxResults)
             THEN getTipsAmountsLoop(W, recipientCommentCid, feeRecipients, offset,
                                     maxResults, i + 1, 1, currentIndex, resultIndex,
                                     amounts)
             ELSE IF currentIndex >= offset
             THEN getTipsAmountsLoop(W, recipientCommentCid, feeRecipients, offset,
                                     maxResults, i, j + 1, currentIndex + 1,
                                     resultIndex + 1,
                                     [amounts EXCEPT ![resultIndex + 1] = tipArray[j].amount])
             ELSE getTipsAmountsLoop(W, recipientCommentCid, feeRecipients, offset,
                                     maxResults, i, j + 1, currentIndex + 1,
                                     resultIndex, amounts)

\* getTipsAmounts copying from the first record, whatever the offset
getTipsAmountsFromStart(W, recipientCommentCid, feeRecipients, offset, limit) ==
    LET totalTips == countTips(W, recipientCommentCid, feeRecipients, 1, 0)
        maxResults == IF offset + limit > totalTips THEN totalTips - offset ELSE limit
    IN  IF totalTips < 0 THEN [status |-> "Panic", result |-> <<>>]
        ELSE IF offset >= totalTips THEN [status |-> "ok", result |-> <<>>]
        ELSE IF offset + limit > UINT256_MAX THEN [status |-> "Panic", result |-> <<>>]
        ELSE [status |-> "ok",
              result |-> getTipsAmountsLoop(W, recipientCommentCid, feeRecipients, 0,
                                            maxResults, 1, 1, 0, 0,
                                            [n \in 1..maxResults |-> 0])]

\* function getTipsAmounts(...) external view returns (uint256[] memory amounts)
getTipsAmounts(W, recipientCommentCid, feeRecipients, offset, limit) ==
    LET totalTips == countTips(W, recipientCommentCid, feeRecipients, 1, 0)
        maxResults == IF offset + limit > totalTips THEN totalTips - offset ELSE limit
    IN  IF totalTips < 0 THEN [status |-> "Panic", result |-> <<>>]
        ELSE IF offset >= totalTips THEN [status |-> "ok", result |-> <<>>]
        ELSE IF offset + limit > UINT256_MAX THEN [status |-> "Panic", result |-> <<>>]
        ELSE [status |-> "ok",
              result |-> getTipsAmountsLoop(W, recipientCommentCid, feeRecipients, offset,
                                            maxResults, 1, 1, 0, 0,
                                            [n \in 1..maxResults |-> 0])]

\* function getTipsTotalAmount(...) external view returns (uint256)
RECURSIVE tipsTotalLoop(_, _, _, _, _)
tipsTotalLoop(W, recipientCommentCid, feeRecipients, i, total) ==
    IF ~(i <= Len(feeRecipients)) THEN [status |-> "ok", result |-> total]
    ELSE LET tipKey == tipKeyOf(recipientCommentCid, feeRecipients[i])
             sum == total + Load(W.tipsTotalAmounts, tipKey, 0)
         IN  IF sum > UINT256_MAX THEN [status |-> "Panic", result |-> <<>>]
             ELSE tipsTotalLoop(W, recipientCommentCid, feeRecipients, i + 1, sum)

\* the total with every address counted once, however often it is listed
RECURSIVE Distinct(_)
Distinct(addresses) ==
    IF addresses = <<>> THEN <<>>
    ELSE LET front == SubSeq(addresses, 1, Len(addresses) - 1)
             a == addresses[Len(addresses)]
         IN  IF \E n \in 1..Len(front) : front[n] = a THEN Distinct(front)
             ELSE Append(Distinct(front), a)

getTipsTotalAmountDistinct(W, recipientCommentCid, feeRecipients) ==
    tipsTotalLoop(W, recipientCommentCid, Distinct(feeRecipients), 1, 0)

\* the total of the first fee recipient listed
getTipsTotalAmountFirst(W, recipientCommentCid, feeRecipients) ==
    tipsTotalLoop(W, recipientCommentCid,
                  IF feeRecipients = <<>> THEN <<>> ELSE <<feeRecipients[1]>>, 1, 0)

getTipsTotalAmount(W, recipientCommentCid, feeRecipients) ==
    tipsTotalLoop(W, recipientCommentCid, feeRecipients, 1, 0)

\* the loops with one running total in place of totals[i]
RECURSIVE getTipsTotalAmountsLoopRunning(_, _, _, _, _, _)
getTipsTotalAmountsLoopRunning(W, recipientCommentCids, feeRecipients, i, j, totals) ==
    IF ~(i <= Len(recipientCommentCids)) THEN [status |-> "ok", result |-> totals]
    ELSE IF ~(j <= Len(feeRecipients[i]))
    THEN getTipsTotalAmountsLoopRunning(W, recipientCommentCids, feeRecipients, i + 1, 1,
             IF i + 1 <= Len(totals) THEN [totals EXCEPT ![i + 1] = totals[i]] ELSE totals)
    ELSE LET tipKey == tipKeyOf(recipientCommentCids[i], feeRecipients[i][j])
             sum == totals[i] + Load(W.tipsTotalAmounts, tipKey, 0)
         IN  IF sum > UINT256_MAX THEN [status |-> "Panic", result |-> <<>>]
             ELSE getTipsTotalAmountsLoopRunning(W, recipientCommentCids, feeRecipients,
                                                 i, j + 1, [totals EXCEPT ![i] = sum])

\* the loops of getTipsTotalAmounts: i and j are the loop counters (from 1
\* here), totals is the array allocated before the loops
RECURSIVE getTipsTotalAmountsLoop(_, _, _, _, _, _)
getTipsTotalAmountsLoop(W, recipientCommentCids, feeRecipients, i, j, totals) ==
    IF ~(i <= Len(recipientCommentCids)) THEN [status |-> "ok", result |-> totals]
    ELSE IF ~(j <= Len(feeRecipients[i]))
    THEN getTipsTotalAmountsLoop(W, recipientCommentCids, feeRecipients, i + 1, 1, totals)
    ELSE LET tipKey == tipKeyOf(recipientCommentCids[i], feeRecipients[i][j])
             sum == totals[i] + Load(W.tipsTotalAmounts, tipKey, 0)
         IN  IF sum > UINT256_MAX THEN [status |-> "Panic", result |-> <<>>]
             ELSE getTipsTotalAmountsLoop(W, recipientCommentCids, feeRecipients,
                                          i, j + 1, [totals EXCEPT ![i] = sum])

\* getTipsTotalAmounts requiring no more than that every comment id has a
\* feeRecipients array
getTipsTotalAmountsAtMost(W, recipientCommentCids, feeRecipients) ==
    IF ~(Len(recipientCommentCids) <= Len(feeRecipients))
    THEN [status |-> "Arrays length mismatch", result |-> <<>>]
    ELSE getTipsTotalAmountsLoop(W, recipientCommentCids, feeRecipients, 1, 1,
                                 [n \in 1..Len(recipientCommentCids) |-> 0])

\* function getTipsTotalAmounts(...) external view returns (uint256[] memory)
getTipsTotalAmounts(W, recipientCommentCids, feeRecipients) ==
    IF ~(Len(recipientCommentCids) = Len(feeRecipients))
    THEN [status |-> "Arrays length mismatch", result |-> <<>>]
    ELSE getTipsTotalAmountsLoop(W, recipientCommentCids, feeRecipients, 1, 1,
                                 [n \in 1..Len(recipientCommentCids) |-> 0])

\* the loops of getTipsTotalAmountsSameFeeRecipients
RECURSIVE getTipsTotalAmountsSameFeeRecipientsLoop(_, _, _, _, _, _)
getTipsTotalAmountsSameFeeRecipientsLoop(W, recipientCommentCids, feeRecipients, i, j, totals) ==
    IF ~(i <= Len(recipientCommentCids)) THEN [status |-> "ok", result |-> totals]
    ELSE IF ~(j <= Len(feeRecipients))
    THEN getTipsTotalAmountsSameFeeRecipientsLoop(W, recipientCommentCids, feeRecipients,
                                                  i + 1, 1, totals)
    ELSE LET tipKey == tipKeyOf(recipientCommentCids[i], feeRecipients[j])
             sum == totals[i] + Load(W.tipsTotalAmounts, tipKey, 0)
         IN  IF sum > UINT256_MAX THEN [status |-> "Panic", result |-> <<>>]
             ELSE getTipsTotalAmountsSameFeeRecipientsLoop(W, recipientCommentCids,
                      feeRecipients, i, j + 1, [totals EXCEPT ![i] = sum])

\* function getTipsTotalAmountsSameFeeRecipients(...) external view
getTipsTotalAmountsSameFeeRecipients(W, recipientCommentCids, feeRecipients) ==
    getTipsTotalAmountsSameFeeRecipientsLoop(W, recipientCommentCids, feeRecipients, 1, 1,
        [n \in 1..Len(recipientCommentCids) |-> 0])

\* the loops of getSenderTipsTotalAmounts
RECURSIVE getSenderTipsTotalAmountsLoop(_, _, _, _, _, _, _, _)
getSenderTipsTotalAmountsLoop(W, senderCommentCid, sender, recipientCommentCids, feeRecipients, i, j, totals) ==
    IF ~(i <= Len(recipientCommentCids)) THEN [status |-> "ok", result |-> totals]
    ELSE IF ~(j <= Len(feeRecipients[i]))
    THEN getSenderTipsTotalAmountsLoop(W, senderCommentCid, sender, recipientCommentCids,
                                       feeRecipients, i + 1, 1, totals)
    ELSE LET senderTipKey == senderTipKeyOf(senderCommentCid, sender,
                                            recipientCommentCids[i], feeRecipients[i][j])
             sum == totals[i] + Load(W.senderTipsTotalAmounts, senderTipKey, 0)
         IN  IF sum > UINT256_MAX THEN [status |-> "Panic", result |-> <<>>]
             ELSE getSenderTipsTotalAmountsLoop(W, senderCommentCid, sender,
                      recipientCommentCids, feeRecipients, i, j + 1,
                      [totals EXCEPT ![i] = sum])

\* function getSenderTipsTotalAmounts(...) external view
getSenderTipsTotalAmounts(W, senderCommentCid, sender, recipientCommentCids, feeRecipients) ==
    IF ~(Len(recipientCommentCids) = Len(feeRecipients))
    THEN [status |-> "Arrays length mismatch", result |-> <<>>]
    ELSE getSenderTipsTotalAmountsLoop(W, senderCommentCid, sender, recipientCommentCids,
                                       feeRecipients, 1, 1,
                                       [n \in 1..Len(recipientCommentCids) |-> 0])

\* the loops reading every total under the first comment id
RECURSIVE getSenderTipsTotalAmountsSameFeeRecipientsLoopFirstCid(_, _, _, _, _, _, _, _)
getSenderTipsTotalAmountsSameFeeRecipientsLoopFirstCid(W, senderCommentCid, sender, recipientCommentCids, feeRecipients, i, j, totals) ==
    IF ~(i <= Len(recipientCommentCids)) THEN [status |-> "ok", result |-> totals]
    ELSE IF ~(j <= Len(feeRecipients))
    THEN getSenderTipsTotalAmountsSameFeeRecipientsLoopFirstCid(W, senderCommentCid,
             sender, recipientCommentCids, feeRecipients, i + 1, 1, totals)
    ELSE LET senderTipKey == senderTipKeyOf(senderCommentCid, sender,
                                            recipientCommentCids[1], feeRecipients[j])
             sum == totals[i] + Load(W.senderTipsTotalAmounts, senderTipKey, 0)
         IN  IF sum > UINT256_MAX THEN [status |-> "Panic", result |-> <<>>]
             ELSE getSenderTipsTotalAmountsSameFeeRecipientsLoopFirstCid(W,
                      senderCommentCid, sender, recipientCommentCids, feeRecipients,
                      i, j + 1, [totals EXCEPT ![i] = sum])

\* the loops of getSenderTipsTotalAmountsSameFeeRecipients
RECURSIVE getSenderTipsTotalAmountsSameFeeRecipientsLoop(_, _, _, _, _, _, _, _)
getSenderTipsTotalAmountsSameFeeRecipientsLoop(W, senderCommentCid, sender, recipientCommentCids, feeRecipients, i, j, totals) ==
    IF ~(i <= Len(recipientCommentCids)) THEN [status |-> "ok", result |-> totals]
    ELSE IF ~(j <= Len(feeRecipients))
    THEN getSenderTipsTotalAmountsSameFeeRecipientsLoop(W, senderCommentCid, sender,
             recipientCommentCids, feeRecipients, i + 1, 1, totals)
    ELSE LET senderTipKey == senderTipKeyOf(senderCommentCid, sender,
                                            recipientCommentCids[i], feeRecipients[j])
             sum == totals[i] + Load(W.senderTipsTotalAmounts, senderTipKey, 0)
         IN  IF sum > UINT256_MAX THEN [status |-> "Panic", result |-> <<>>]
             ELSE getSenderTipsTotalAmountsSameFeeRecipientsLoop(W, senderCommentCid,
                      sender, recipientCommentCids, feeRecipients, i, j + 1,
                      [totals EXCEPT ![i] = sum])

\* function getSenderTipsTotalAmountsSameFeeRecipients(...) external view
getSenderTipsTotalAmountsSameFeeRecipients(W, senderCommentCid, sender, recipientCommentCids, feeRecipients) ==
    getSenderTipsTotalAmountsSameFeeRecipientsLoop(W, senderCommentCid, sender,
        recipientCommentCids, feeRecipients, 1, 1,
        [n \in 1..Len(recipientCommentCids) |-> 0])

\* a call that is no view: it clears the totals it has read
ViewClearingTotals(call) ==
    /\ last' = call
    /\ tipsTotalAmounts' = EmptyMapping
    /\ senderTipsTotalAmounts' = EmptyMapping
    /\ UNCHANGED <<tips, minimumTipAmount, feePercent, roles, balances, events,
                   committed>>
    /\ UNCHANGED apiVars
    /\ UNCHANGED tipVars

\* a view call: the state stays, the call and its result are recorded
View(call) ==
    /\ last' = call
    /\ UNCHANGED <<tips, tipsTotalAmounts, senderTipsTotalAmounts, minimumTipAmount,
                   feePercent, roles, balances, events, committed>>
    /\ UNCHANGED apiVars
    /\ UNCHANGED tipVars

GetSenderTipsTotalAmount(senderCommentCid, sender, recipientCommentCid, feeRecipients) ==
    LET res == getSenderTipsTotalAmount(World, senderCommentCid, sender,
                                        recipientCommentCid, feeRecipients)
    IN  View([op |-> "getSenderTipsTotalAmount", status |-> res.status,
              result |-> res.result, senderCommentCid |-> senderCommentCid,
              sender |-> sender, recipientCommentCid |-> recipientCommentCid,
              feeRecipients |-> feeRecipients])

GetTips(recipientCommentCid, feeRecipients, offset, limit) ==
    LET res == getTips(World, recipientCommentCid, feeRecipients, offset, limit)
    IN  View([op |-> "getTips", status |-> res.status, result |-> res.result,
              recipientCommentCid |-> recipientCommentCid,
              feeRecipients |-> feeRecipients, offset |-> offset, limit |-> limit])

GetTipsAmounts(recipientCommentCid, feeRecipients, offset, limit) ==
    LET res == getTipsAmounts(World, recipientCommentCid, feeRecipients, offset, limit)
    IN  View([op |-> "getTipsAmounts", status |-> res.status, result |-> res.result,
              recipientCommentCid |-> recipientCommentCid,
              feeRecipients |-> feeRecipients, offset |-> offset, limit |-> limit])

GetTipsTotalAmount(recipientCommentCid, feeRecipients) ==
    LET res == getTipsTotalAmount(World, recipientCommentCid, feeRecipients)
    IN  View([op |-> "getTipsTotalAmount", status |-> res.status, result |-> res.result,
              recipientCommentCid |-> recipientCommentCid,
              feeRecipients |-> feeRecipients])

GetTipsTotalAmounts(recipientCommentCids, feeRecipients) ==
    LET res == getTipsTotalAmounts(World, recipientCommentCids, feeRecipients)
    IN  View([op |-> "getTipsTotalAmounts", status |-> res.status, result |-> res.result,
              recipientCommentCids |-> recipientCommentCids,
              feeRecipients |-> feeRecipients])

GetTipsTotalAmountsSameFeeRecipients(recipientCommentCids, feeRecipients) ==
    LET res == getTipsTotalAmountsSameFeeRecipients(World, recipientCommentCids,
                                                    feeRecipients)
    IN  View([op |-> "getTipsTotalAmountsSameFeeRecipients", status |-> res.status,
              result |-> res.result, recipientCommentCids |-> recipientCommentCids,
              feeRecipients |-> feeRecipients])

GetSenderTipsTotalAmounts(senderCommentCid, sender, recipientCommentCids, feeRecipients) ==
    LET res == getSenderTipsTotalAmounts(World, senderCommentCid, sender,
                                         recipientCommentCids, feeRecipients)
    IN  View([op |-> "getSenderTipsTotalAmounts", status |-> res.status,
              result |-> res.result, senderCommentCid |-> senderCommentCid,
              sender |-> sender, recipientCommentCids |-> recipientCommentCids,
              feeRecipients |-> feeRecipients])

GetSenderTipsTotalAmountsSameFeeRecipients(senderCommentCid, sender, recipientCommentCids, feeRecipients) ==
    LET res == getSenderTipsTotalAmountsSameFeeRecipients(World, senderCommentCid, sender,
                                                          recipientCommentCids,
                                                          feeRecipients)
    IN  View([op |-> "getSenderTipsTotalAmountsSameFeeRecipients", status |-> res.status,
              result |-> res.result, senderCommentCid |-> senderCommentCid,
              sender |-> sender, recipientCommentCids |-> recipientCommentCids,
              feeRecipients |-> feeRecipients])

----------------------------------------------------------------------------
\* The payment scenario: one tipper, the validations, the fee split and the
\* two transfers, under every configuration the moderator can set.

PayTip ==
    /\ Len(events) < MaxTips
    /\ \E amount \in Amounts : \E value \in {amount, 1},
          recipient \in {USER2, REJECTOR}, feeRecipient \in {MOD, REJECTOR} :
          Tip(USER1, value, recipient, amount, feeRecipient, ZeroHash, ZeroHash)

PaySetMinimumTipAmount ==
    \E sender \in {MOD, USER1, ADMIN}, v \in {0, 10} : SetMinimumTipAmount(sender, v)

PaySetFeePercent ==
    \E sender \in {MOD, USER1, ADMIN}, v \in {0, 1, 20, 21} : SetFeePercent(sender, v)

PayGrantRole == \E sender \in {ADMIN, USER1} : GrantRole(sender, MODERATOR_ROLE, MOD)

PayRevokeRole == RevokeRole(ADMIN, MODERATOR_ROLE, MOD)

Next ==
    \/ PayTip
    \/ PaySetMinimumTipAmount
    \/ PaySetFeePercent
    \/ PayGrantRole
    \/ PayRevokeRole

Spec == Init /\ [][Next]_vars

----------------------------------------------------------------------------
\* The ledger scenario: the contract as the tests deploy it (minimum 1, fee 5
\* percent), tips from two callers under every pair of comment ids and two
\* fee recipients, and the sender total read back.

\* A view call changes no state: the state after two view calls in a row is
\* the state after the second one alone, so the scenarios make each view call
\* right after the deployment or a tip.
AfterWrite == last.op \in {"constructor", "tip"}

LedgerInit == Init /\ minimumTipAmount = 1 /\ feePercent = 5

LedgerTip ==
    /\ Len(events) < MaxLedgerTips
    /\ \E sender \in {USER1, USER2}, feeRecipient \in {MOD, ADMIN},
          senderCommentCid \in Cid, recipientCommentCid \in Cid,
          amount \in {1, BigAmount} :
          \E value \in {amount, 1} :
             Tip(sender, value, USER2, amount, feeRecipient,
                 senderCommentCid, recipientCommentCid)

LedgerGetSenderTipsTotalAmount ==
    /\ AfterWrite
    /\ \E senderCommentCid \in Cid, sender \in {USER1, USER2},
          recipientCommentCid \in Cid, feeRecipient \in {MOD, ADMIN} :
          GetSenderTipsTotalAmount(senderCommentCid, sender, recipientCommentCid,
                                   <<feeRecipient>>)

LedgerNext ==
    \/ LedgerTip
    \/ LedgerGetSenderTipsTotalAmount

SpecLedger == LedgerInit /\ [][LedgerNext]_vars

----------------------------------------------------------------------------
\* The query scenario: the contract as the tests deploy it, tips under two fee
\* recipients and two comment ids, and the paginated queries with
\* feeRecipients arrays that are empty, repeat an address or name an address
\* without tips, and with offsets and limits up to the largest uint256.

ReadTip ==
    /\ Len(events) < MaxReadTips
    /\ \/ \E feeRecipient \in {MOD, USER2}, amount \in {1, 10} :
             Tip(USER1, amount, USER2, amount, feeRecipient, ZeroHash, ZeroHash)
       \/ Tip(USER1, 1, USER2, 1, MOD, ZeroHash, Cid1)

FeeRecipientLists ==
    {<<>>, <<MOD>>, <<USER2>>, <<ADMIN>>, <<MOD, USER2>>, <<USER2, MOD>>,
     <<MOD, MOD>>, <<ADMIN, MOD>>, <<MOD, ADMIN, USER2>>}
Offsets == {0, 1, 2, UINT256_MAX}
Limits == {0, 1, 2, UINT256_MAX}

ReadGetTips ==
    /\ AfterWrite
    /\ \E feeRecipients \in FeeRecipientLists, offset \in Offsets, limit \in Limits :
          GetTips(ZeroHash, feeRecipients, offset, limit)

ReadGetTipsAmounts ==
    /\ AfterWrite
    /\ \E feeRecipients \in FeeRecipientLists, offset \in Offsets, limit \in Limits :
          GetTipsAmounts(ZeroHash, feeRecipients, offset, limit)

ReadNext ==
    \/ ReadTip
    \/ ReadGetTips
    \/ ReadGetTipsAmounts

SpecRead == LedgerInit /\ [][ReadNext]_vars

----------------------------------------------------------------------------
\* The totals scenario: the contract as the tests deploy it, tips of two
\* amounts under two comment ids and two fee recipients and one tip by a
\* second caller, and the total queries, single and batched, with arrays that
\* are empty, repeat an element or differ in length.

TotalsTip ==
    /\ Len(events) < MaxTotalsTips
    /\ \/ \E feeRecipient \in {MOD, ADMIN}, recipientCommentCid \in Cid,
             amount \in {1, 10} :
             Tip(USER1, amount, USER2, amount, feeRecipient, ZeroHash,
                 recipientCommentCid)
       \/ Tip(USER2, 10, USER1, 10, MOD, ZeroHash, Cid1)

TotalsFeeRecipients == {<<>>, <<MOD>>, <<ADMIN, MOD>>, <<MOD, MOD>>, <<USER2>>}
TotalsCids == {<<>>, <<Cid1>>, <<ZeroHash, Cid1>>, <<Cid1, Cid1>>}
TotalsFeeRecipientsPerCid ==
    {<<>>, <<<<MOD>>>>, <<<<MOD, MOD>>>>, <<<<MOD>>, <<ADMIN, MOD>>>>,
     <<<<>>, <<MOD, MOD>>>>, <<<<USER2>>, <<ADMIN>>>>}

TotalsGetTipsTotalAmount ==
    /\ AfterWrite
    /\ \E recipientCommentCid \in Cid, feeRecipients \in TotalsFeeRecipients :
          GetTipsTotalAmount(recipientCommentCid, feeRecipients)

TotalsGetTipsTotalAmounts ==
    /\ AfterWrite
    /\ \E recipientCommentCids \in TotalsCids,
          feeRecipients \in TotalsFeeRecipientsPerCid :
          GetTipsTotalAmounts(recipientCommentCids, feeRecipients)

TotalsGetTipsTotalAmountsSameFeeRecipients ==
    /\ AfterWrite
    /\ \E recipientCommentCids \in TotalsCids, feeRecipients \in TotalsFeeRecipients :
          GetTipsTotalAmountsSameFeeRecipients(recipientCommentCids, feeRecipients)

TotalsGetSenderTipsTotalAmount ==
    /\ AfterWrite
    /\ \E sender \in {USER1, USER2}, recipientCommentCid \in Cid,
          feeRecipients \in TotalsFeeRecipients :
          GetSenderTipsTotalAmount(ZeroHash, sender, recipientCommentCid, feeRecipients)

TotalsGetSenderTipsTotalAmounts ==
    /\ AfterWrite
    /\ \E sender \in {USER1, USER2}, recipientCommentCids \in TotalsCids,
          feeRecipients \in TotalsFeeRecipientsPerCid :
          GetSenderTipsTotalAmounts(ZeroHash, sender, recipientCommentCids,
                                    feeRecipients)

TotalsGetSenderTipsTotalAmountsSameFeeRecipients ==
    /\ AfterWrite
    /\ \E sender \in {USER1, USER2}, recipientCommentCids \in TotalsCids,
          feeRecipients \in TotalsFeeRecipients :
          GetSenderTipsTotalAmountsSameFeeRecipients(ZeroHash, sender,
                                                     recipientCommentCids,
                                                     feeRecipients)

TotalsNext ==
    \/ TotalsTip
    \/ TotalsGetTipsTotalAmount
    \/ TotalsGetTipsTotalAmounts
    \/ TotalsGetTipsTotalAmountsSameFeeRecipients
    \/ TotalsGetSenderTipsTotalAmount
    \/ TotalsGetSenderTipsTotalAmounts
    \/ TotalsGetSenderTipsTotalAmountsSameFeeRecipients

SpecTotals == LedgerInit /\ [][TotalsNext]_vars

----------------------------------------------------------------------------
\* The roles scenario: the contract as the tests deploy it and the inherited
\* role operations, called by the admin, the moderator and a user for both
\* roles and every account of the three, with a setter to show who holds the
\* moderator role.

RoleAccounts == {ADMIN, MOD, USER1}
Roles == {DEFAULT_ADMIN_ROLE, MODERATOR_ROLE}

RolesGrantRole ==
    \E sender \in RoleAccounts, role \in Roles, account \in RoleAccounts :
        GrantRole(sender, role, account)

RolesRevokeRole ==
    \E sender \in RoleAccounts, role \in Roles, account \in RoleAccounts :
        RevokeRole(sender, role, account)

RolesRenounceRole ==
    \E sender \in RoleAccounts, role \in Roles, callerConfirmation \in RoleAccounts :
        RenounceRole(sender, role, callerConfirmation)

RolesSetMinimumTipAmount ==
    \E sender \in RoleAccounts : SetMinimumTipAmount(sender, 10)

RolesNext ==
    \/ RolesGrantRole
    \/ RolesRevokeRole
    \/ RolesRenounceRole
    \/ RolesSetMinimumTipAmount

SpecRoles == LedgerInit /\ [][RolesNext]_vars

----------------------------------------------------------------------------
\* The repeated-query scenario: the contract as the tests deploy it, tips of
\* two amounts under two fee recipients, and every query function, called in
\* any order and any number of times between the tips.

QueriesTip ==
    /\ Len(events) < MaxQueryTips
    /\ \E feeRecipient \in {MOD, ADMIN}, amount \in {1, 10} :
          Tip(USER1, amount, USER2, amount, feeRecipient, ZeroHash, ZeroHash)

QueriesFeeRecipients == {<<MOD>>, <<ADMIN, MOD>>}
QueriesCids == <<ZeroHash, ZeroHash>>
QueriesFeeRecipientsPerCid == {<<<<MOD>>, <<ADMIN>>>>, <<<<ADMIN, MOD>>, <<>>>>}

QueriesGetTipsTotalAmount ==
    \E feeRecipients \in QueriesFeeRecipients : GetTipsTotalAmount(ZeroHash, feeRecipients)

QueriesGetTipsTotalAmounts ==
    \E feeRecipients \in QueriesFeeRecipientsPerCid :
        GetTipsTotalAmounts(QueriesCids, feeRecipients)

QueriesGetTipsTotalAmountsSameFeeRecipients ==
    \E feeRecipients \in QueriesFeeRecipients :
        GetTipsTotalAmountsSameFeeRecipients(QueriesCids, feeRecipients)

QueriesGetTipsAmounts ==
    \E feeRecipients \in QueriesFeeRecipients, offset \in {0, 1} :
        GetTipsAmounts(ZeroHash, feeRecipients, offset, 1)

QueriesGetTips ==
    \E feeRecipients \in QueriesFeeRecipients, offset \in {0, 1} :
        GetTips(ZeroHash, feeRecipients, offset, 1)

QueriesGetSenderTipsTotalAmount ==
    \E feeRecipients \in QueriesFeeRecipients :
        GetSenderTipsTotalAmount(ZeroHash, USER1, ZeroHash, feeRecipients)

QueriesGetSenderTipsTotalAmounts ==
    \E feeRecipients \in QueriesFeeRecipientsPerCid :
        GetSenderTipsTotalAmounts(ZeroHash, USER1, QueriesCids, feeRecipients)

QueriesGetSenderTipsTotalAmountsSameFeeRecipients ==
    \E feeRecipients \in QueriesFeeRecipients :
        GetSenderTipsTotalAmountsSameFeeRecipients(ZeroHash, USER1, QueriesCids,
                                                   feeRecipients)

QueriesNext ==
    \/ QueriesTip
    \/ QueriesGetTipsTotalAmount
    \/ QueriesGetTipsTotalAmounts
    \/ QueriesGetTipsTotalAmountsSameFeeRecipients
    \/ QueriesGetTipsAmounts
    \/ QueriesGetTips
    \/ QueriesGetSenderTipsTotalAmount
    \/ QueriesGetSenderTipsTotalAmounts
    \/ QueriesGetSenderTipsTotalAmountsSameFeeRecipients

SpecQueries == LedgerInit /\ [][QueriesNext]_vars

----------------------------------------------------------------------------
\* The self-payment scenario: the contract as the tests deploy it, tips whose
\* caller, recipient and fee recipient may be one and the same account, and
\* tips that name the contract itself as the recipient.

SelfTip ==
    /\ Len(events) < MaxSelfTips
    /\ \E sender \in {USER1, USER2}, recipient \in {USER1, USER2, THIS},
          feeRecipient \in {USER1, MOD}, amount \in {1, BigAmount} :
          \E value \in {amount, 1} :
             Tip(sender, value, recipient, amount, feeRecipient, ZeroHash, ZeroHash)

SelfNext == SelfTip

SpecSelf == LedgerInit /\ [][SelfNext]_vars

----------------------------------------------------------------------------
\* The client, src/js-api/src/plebbitTippingV1.ts.  Its code runs on one
\* thread: a call runs up to its first await, a timer callback or the
\* continuation of an awaited contract call runs as one step, and the
\* continuations a step makes ready run before the next timer or response.

\* the delay of the debounce timer, in milliseconds
DebounceDelay == 100

Remove(mapping, key) == [k \in DOMAIN mapping \ {key} |-> mapping[k]]

\* the order of the account addresses as strings
AddressOrder == <<ADMIN, MOD, REJECTOR, THIS, USER1, USER2>>
Rank(a) == CHOOSE n \in 1..Len(AddressOrder) : AddressOrder[n] = a

\* Array.prototype.sort(), which sorts the array it is called on
RECURSIVE sort(_)
sort(array) ==
    IF array = <<>> THEN <<>>
    ELSE LET least == CHOOSE n \in 1..Len(array) :
                          \A m \in 1..Len(array) : Rank(array[n]) <= Rank(array[m])
         IN  <<array[least]>>
             \o sort(SubSeq(array, 1, least - 1) \o SubSeq(array, least + 1, Len(array)))

\* the comment ids of the client are CID strings; cidToBytes32 is the digest
\* inside the CID
QmA == "QmA"
QmB == "QmB"
cidToBytes32(cid) == IF cid = QmA THEN ZeroHash ELSE Cid1

\* private createCacheKey(feeRecipients, recipientCommentCid)
createCacheKey(feeRecipients, recipientCommentCid) ==
    <<"comment", sort(feeRecipients), recipientCommentCid>>

\* private deduplicateRequests(requests): the first request of every
\* (feeRecipients, recipientCommentCid)
RECURSIVE deduplicateRequests(_)
deduplicateRequests(requests) ==
    IF requests = <<>> THEN <<>>
    ELSE LET front == deduplicateRequests(SubSeq(requests, 1, Len(requests) - 1))
             request == requests[Len(requests)]
         IN  IF \E n \in 1..Len(front) :
                    /\ front[n].feeRecipients = request.feeRecipients
                    /\ front[n].recipientCommentCid = request.recipientCommentCid
             THEN front
             ELSE Append(front, request)

\* the timer a Map of timers holds under cacheKey, if it is still set
TimerOf(map, kind, cacheKey) ==
    IF cacheKey \in DOMAIN map
    THEN {t \in timers : t.kind = kind /\ t.by = map[cacheKey]}
    ELSE {}

\* private getDebouncedTipsTotalAmount(feeRecipients, recipientCommentCid),
\* made by the client call number call: the request joins the pending ones of
\* its cache key and the debounce timer of the key starts anew
getDebouncedTipsTotalAmount(feeRecipients, recipientCommentCid, call) ==
    LET cacheKey == createCacheKey(feeRecipients, recipientCommentCid)
        request == [feeRecipients |-> sort(feeRecipients),
                    recipientCommentCid |-> recipientCommentCid, call |-> call]
    IN  /\ pendingBulkRequests' =
              Store(pendingBulkRequests, cacheKey,
                    Append(Load(pendingBulkRequests, cacheKey, <<>>), request))
        /\ timers' = (timers \ TimerOf(debouncedBulkCalls, "debounce", cacheKey))
                       \cup {[kind |-> "debounce", cacheKey |-> cacheKey,
                              remaining |-> DebounceDelay, by |-> call]}
        /\ debouncedBulkCalls' = Store(debouncedBulkCalls, cacheKey, call)

\* the record of a client call and of its promise; afterRemoval tells that
\* the call found no cached comment although a createComment of its cache key
\* had returned before, that is, that the cached comment had been removed
Call(op, feeRecipients, recipientCommentCid, status, result) ==
    LET cacheKey == createCacheKey(feeRecipients, recipientCommentCid)
    IN  [op |-> op, feeRecipients |-> sort(feeRecipients),
         recipientCommentCid |-> recipientCommentCid,
         cacheKey |-> cacheKey, status |-> status, result |-> result,
         afterRemoval |->
            /\ cacheKey \notin DOMAIN comments
            /\ \E m \in 1..Len(clientCalls) :
                  /\ clientCalls[m].op = "createComment"
                  /\ clientCalls[m].status = "resolved"
                  /\ clientCalls[m].cacheKey = cacheKey]

\* a createComment that asks the contract whatever the cache holds
CreateCommentUncached(feeRecipients, recipientCommentCid) ==
    LET cacheKey == createCacheKey(feeRecipients, recipientCommentCid)
        call == Len(clientCalls) + 1
    IN  /\ clientCalls' = Append(clientCalls, Call("createComment", feeRecipients,
                                                   recipientCommentCid, "pending", <<>>))
        /\ getDebouncedTipsTotalAmount(feeRecipients, recipientCommentCid, call)
        /\ last' = [op |-> "createComment", call |-> call, cacheKey |-> cacheKey,
                    cached |-> cacheKey \in DOMAIN comments]
        /\ UNCHANGED <<tips, tipsTotalAmounts, senderTipsTotalAmounts, minimumTipAmount,
                       feePercent, roles, balances, events, committed>>
        /\ UNCHANGED <<cache, comments, cacheExpirationTimers, mockBulkCallCount,
                       inFlight, age>>
        /\ UNCHANGED tipVars

\* async createComment({ feeRecipients, recipientCommentCid }), up to its await
CreateComment(feeRecipients, recipientCommentCid) ==
    LET cacheKey == createCacheKey(feeRecipients, recipientCommentCid)
        call == Len(clientCalls) + 1
    IN  /\ IF cacheKey \in DOMAIN comments
           THEN /\ clientCalls' = Append(clientCalls, Call("createComment", feeRecipients,
                                               recipientCommentCid, "resolved",
                                               comments[cacheKey].tipsTotalAmount))
                /\ UNCHANGED <<pendingBulkRequests, timers, debouncedBulkCalls>>
           ELSE /\ clientCalls' = Append(clientCalls, Call("createComment", feeRecipients,
                                               recipientCommentCid, "pending", <<>>))
                /\ getDebouncedTipsTotalAmount(feeRecipients, recipientCommentCid, call)
        /\ last' = [op |-> "createComment", call |-> call, cacheKey |-> cacheKey,
                    cached |-> cacheKey \in DOMAIN comments]
        /\ UNCHANGED <<tips, tipsTotalAmounts, senderTipsTotalAmounts, minimumTipAmount,
                       feePercent, roles, balances, events, committed>>
        /\ UNCHANGED <<cache, comments, cacheExpirationTimers, mockBulkCallCount,
                       inFlight, age>>
        /\ UNCHANGED tipVars

\* async updateTipsTotalAmount() of the object the createComment call number
\* handle returned, up to its await
UpdateTipsTotalAmount(handle) ==
    LET call == Len(clientCalls) + 1
    IN  /\ clientCalls[handle].op = "createComment" /\ clientCalls[handle].status = "resolved"
        /\ clientCalls' = Append(clientCalls, [clientCalls[handle] EXCEPT
                                      !.op = "updateTipsTotalAmount",
                                      !.status = "pending", !.result = <<>>,
                                      !.afterRemoval = FALSE])
        /\ getDebouncedTipsTotalAmount(clientCalls[handle].feeRecipients,
                                       clientCalls[handle].recipientCommentCid, call)
        /\ last' = [op |-> "updateTipsTotalAmount", call |-> call,
                    cacheKey |-> clientCalls[handle].cacheKey]
        /\ UNCHANGED <<tips, tipsTotalAmounts, senderTipsTotalAmounts, minimumTipAmount,
                       feePercent, roles, balances, events, committed>>
        /\ UNCHANGED <<cache, comments, cacheExpirationTimers, mockBulkCallCount,
                       inFlight, age>>
        /\ UNCHANGED tipVars

\* the debounce timer t fires: private async executeBulkCall(cacheKey), up to
\* its await of the contract
ExecuteBulkCall(t) ==
    LET requests == Load(pendingBulkRequests, t.cacheKey, <<>>)
    IN  /\ t.kind = "debounce" /\ t.remaining = 0
        /\ timers' = timers \ {t}
        /\ IF requests = <<>>
           THEN UNCHANGED <<mockBulkCallCount, inFlight>>
           ELSE /\ mockBulkCallCount' = mockBulkCallCount + 1
                /\ inFlight' = inFlight \cup
                      {[by |-> t.by, cacheKey |-> t.cacheKey,
                        uniqueRequests |-> deduplicateRequests(requests),
                        live |-> TRUE, requests |-> <<>>]}
        /\ last' = [op |-> "executeBulkCall", cacheKey |-> t.cacheKey, by |-> t.by,
                    requests |-> requests]
        /\ UNCHANGED <<tips, tipsTotalAmounts, senderTipsTotalAmounts, minimumTipAmount,
                       feePercent, roles, balances, events, committed>>
        /\ UNCHANGED <<cache, comments, pendingBulkRequests, debouncedBulkCalls,
                       cacheExpirationTimers, clientCalls, age>>
        /\ UNCHANGED tipVars

\* the requests array of the run c: the array pendingBulkRequests holds, or
\* the array as it was when a finally block took it out of the Map
RequestsOf(c) == IF c.live THEN pendingBulkRequests[c.cacheKey] ELSE c.requests

\* the finally block of executeBulkCall: the Map entries of the key go, the
\* timer of debouncedBulkCalls is not cleared
Finally(c) ==
    /\ pendingBulkRequests' = Remove(pendingBulkRequests, c.cacheKey)
    /\ debouncedBulkCalls' = Remove(debouncedBulkCalls, c.cacheKey)
    /\ inFlight' = {IF d.cacheKey = c.cacheKey /\ d.live
                    THEN [d EXCEPT !.live = FALSE,
                                   !.requests = pendingBulkRequests[c.cacheKey]]
                    ELSE d : d \in inFlight \ {c}}

\* the contract answers the run c: request.resolve(result), the finally
\* block, and the continuation of the call whose promise was resolved
\* (createComment caches the total and clientCalls setupCacheExpiration,
\* updateTipsTotalAmount writes the total into the cached comment)
ContractReturns(c) ==
    LET request == c.uniqueRequests[1]
        cacheKey == clientCalls[request.call].cacheKey
        res == getTipsTotalAmount(World, cidToBytes32(request.recipientCommentCid),
                                  request.feeRecipients)
        settles == clientCalls[request.call].status = "pending"
        creates == settles /\ clientCalls[request.call].op = "createComment"
        updates == settles /\ clientCalls[request.call].op = "updateTipsTotalAmount"
    IN  /\ Len(c.uniqueRequests) = 1
        /\ res.status = "ok"
        /\ clientCalls' =
              IF ~settles THEN clientCalls
              ELSE IF updates /\ cacheKey \notin DOMAIN comments
              THEN [clientCalls EXCEPT ![request.call].status = "rejected",
                                 ![request.call].result = "TypeError"]
              ELSE [clientCalls EXCEPT ![request.call].status = "resolved",
                                 ![request.call].result = res.result]
        /\ comments' =
              IF creates
              THEN Store(comments, cacheKey,
                         [tipsTotalAmount |-> res.result,
                          feeRecipients |-> request.feeRecipients,
                          recipientCommentCid |-> request.recipientCommentCid])
              ELSE IF updates /\ cacheKey \in DOMAIN comments
              THEN [comments EXCEPT ![cacheKey].tipsTotalAmount = res.result]
              ELSE comments
        /\ IF creates
           THEN /\ timers' = (timers \ TimerOf(cacheExpirationTimers, "expire", cacheKey))
                               \cup {[kind |-> "expire", cacheKey |-> cacheKey,
                                      remaining |-> cache.maxAge, by |-> request.call]}
                /\ cacheExpirationTimers' =
                      Store(cacheExpirationTimers, cacheKey, request.call)
                /\ age' = Store(age, cacheKey, 0)
           ELSE UNCHANGED <<timers, cacheExpirationTimers, age>>
        /\ Finally(c)
        /\ last' = [op |-> "contractReturns", cacheKey |-> c.cacheKey, by |-> c.by,
                    result |-> res.result, requests |-> RequestsOf(c)]
        /\ UNCHANGED <<tips, tipsTotalAmounts, senderTipsTotalAmounts, minimumTipAmount,
                       feePercent, roles, balances, events, committed>>
        /\ UNCHANGED <<cache, mockBulkCallCount>>
        /\ UNCHANGED tipVars

\* the contract call of the run c fails (the node is unreachable, the call
\* reverts, or the bulk call is given CID strings for bytes32): the catch
\* block rejects every request of the array, then the finally block
ContractFails(c) ==
    LET rejected == {RequestsOf(c)[n].call : n \in 1..Len(RequestsOf(c))}
    IN  /\ clientCalls' = [n \in 1..Len(clientCalls) |->
                        IF n \in rejected /\ clientCalls[n].status = "pending"
                        THEN [clientCalls[n] EXCEPT !.status = "rejected", !.result = "Error"]
                        ELSE clientCalls[n]]
        /\ Finally(c)
        /\ last' = [op |-> "contractFails", cacheKey |-> c.cacheKey, by |-> c.by,
                    requests |-> RequestsOf(c)]
        /\ UNCHANGED <<tips, tipsTotalAmounts, senderTipsTotalAmounts, minimumTipAmount,
                       feePercent, roles, balances, events, committed>>
        /\ UNCHANGED <<cache, comments, cacheExpirationTimers, mockBulkCallCount,
                       timers, age>>
        /\ UNCHANGED tipVars

\* the expiry timer t fires: the callback of setupCacheExpiration
CacheExpires(t) ==
    /\ t.kind = "expire" /\ t.remaining = 0
    /\ timers' = timers \ {t}
    /\ comments' = Remove(comments, t.cacheKey)
    /\ cacheExpirationTimers' = Remove(cacheExpirationTimers, t.cacheKey)
    /\ age' = Remove(age, t.cacheKey)
    /\ last' = [op |-> "cacheExpires", cacheKey |-> t.cacheKey]
    /\ UNCHANGED <<tips, tipsTotalAmounts, senderTipsTotalAmounts, minimumTipAmount,
                   feePercent, roles, balances, events, committed>>
    /\ UNCHANGED <<cache, pendingBulkRequests, debouncedBulkCalls, mockBulkCallCount,
                   inFlight, clientCalls>>
    /\ UNCHANGED tipVars

\* time passes, half a debounce delay at a time and no further than the
\* moment the next timer is due: a timer fires when its delay has passed
TimeStep == DebounceDelay \div 2

Min(a, b) == IF a < b THEN a ELSE b

TimePasses ==
    LET next == CHOOSE t \in timers : \A u \in timers : t.remaining <= u.remaining
        d == Min(TimeStep, next.remaining)
    IN  /\ timers # {}
        /\ \A t \in timers : t.remaining > 0
        /\ timers' = {[t EXCEPT !.remaining = @ - d] : t \in timers}
        /\ age' = [k \in DOMAIN age |-> age[k] + d]
        /\ last' = [op |-> "timePasses", d |-> d]
        /\ UNCHANGED <<tips, tipsTotalAmounts, senderTipsTotalAmounts, minimumTipAmount,
                       feePercent, roles, balances, events, committed>>
        /\ UNCHANGED <<cache, comments, pendingBulkRequests, debouncedBulkCalls,
                       cacheExpirationTimers, mockBulkCallCount, inFlight, clientCalls>>
        /\ UNCHANGED tipVars

----------------------------------------------------------------------------
\* The client scenario: one client in front of the ledger meets requests for
\* two comments, the second with its fee recipients given out of order, while
\* somebody tips the first comment and time passes.

ApiComments ==
    {[feeRecipients |-> <<MOD>>, recipientCommentCid |-> QmA],
     [feeRecipients |-> <<USER2, MOD>>, recipientCommentCid |-> QmB]}

ApiCreateComment ==
    /\ Len(clientCalls) < MaxApiCalls
    /\ \E c \in ApiComments : CreateComment(c.feeRecipients, c.recipientCommentCid)

ApiUpdateTipsTotalAmount ==
    /\ Len(clientCalls) < MaxApiCalls
    /\ \E handle \in 1..Len(clientCalls) : UpdateTipsTotalAmount(handle)

ApiExecuteBulkCall == \E t \in timers : ExecuteBulkCall(t)

ApiCacheExpires == \E t \in timers : CacheExpires(t)

ApiContractReturns == \E c \in inFlight : ContractReturns(c)

ApiContractFails == \E c \in inFlight : ContractFails(c)

ApiTip ==
    /\ Len(events) < MaxApiTips
    /\ Tip(USER1, 10, USER2, 10, MOD, ZeroHash, cidToBytes32(QmA))

ApiNext ==
    \/ ApiCreateComment
    \/ ApiUpdateTipsTotalAmount
    \/ ApiExecuteBulkCall
    \/ ApiCacheExpires
    \/ ApiContractReturns
    \/ ApiContractFails
    \/ TimePasses
    \/ ApiTip

SpecApi == LedgerInit /\ [][ApiNext]_vars

----------------------------------------------------------------------------
\* The tip transaction of the client, createTip and send() of
\* src/js-api/src/plebbitTippingV1.ts.  send() runs up to each of its awaits;
\* the node answers the read of the minimum, takes the transaction, and mines
\* it, each in a step of its own.

\* undefined; an option that may be left out (sender, senderCommentCid) is
\* <<>> when it is, and <<v>> when it is given as v
Undefined == <<>>

\* tipTx.hash and the receipt of the transaction of the send() call number n
HashOf(n) == <<"hash", n>>
ReceiptOf(n) == <<"receipt", n>>

\* a tip amount equal to the minimum read
tipAmountIsMinimum(minTipAmount) == minTipAmount

\* const tipAmount = minTipAmount * 2n
tipAmountOf(minTipAmount) == minTipAmount * 2

\* async createTip({ feeRecipients, recipientCommentCid, senderCommentCid,
\* sender, privateKey }): the transaction object and what send() closes over;
\* wallet is the account of privateKey
CreateTip(wallet, sender, feeRecipients, recipientCommentCid, senderCommentCid) ==
    /\ transaction = NoTransaction
    /\ transaction' =
          [transactionHash |-> Undefined, receipt |-> Undefined, error |-> Undefined,
           wallet |-> wallet, sender |-> sender, feeRecipients |-> feeRecipients,
           recipientCidBytes |-> cidToBytes32(recipientCommentCid),
           senderCidBytes |-> IF senderCommentCid = Undefined THEN ZeroHash
                              ELSE cidToBytes32(senderCommentCid[1])]
    /\ last' = [op |-> "createTip"]
    /\ UNCHANGED <<tips, tipsTotalAmounts, senderTipsTotalAmounts, minimumTipAmount,
                   feePercent, roles, balances, events, committed>>
    /\ UNCHANGED apiVars
    /\ UNCHANGED sends

\* sender || wallet.address
SenderOrWallet == IF transaction.sender = Undefined THEN transaction.wallet
                  ELSE transaction.sender[1]

\* transaction.send(), up to its await of minimumTipAmount(); minTipAmount
\* and tipAmount are not set yet, and the transaction is not mined
Send ==
    /\ transaction # NoTransaction
    /\ sends' = Append(sends, [pc |-> "minimumTipAmount", minTipAmount |-> 0,
                               tipAmount |-> 0, status |-> "pending",
                               result |-> Undefined])
    /\ last' = [op |-> "send", send |-> Len(sends) + 1]
    /\ UNCHANGED <<tips, tipsTotalAmounts, senderTipsTotalAmounts, minimumTipAmount,
                   feePercent, roles, balances, events, committed>>
    /\ UNCHANGED apiVars
    /\ UNCHANGED transaction

\* the contract answers minimumTipAmount(): send() computes the tip amount
\* and runs up to its await of tip(...)
SendReadsMinimum(n) ==
    /\ sends[n].pc = "minimumTipAmount"
    /\ sends' = [sends EXCEPT ![n].pc = "tip",
                              ![n].minTipAmount = minimumTipAmount,
                              ![n].tipAmount = tipAmountOf(minimumTipAmount)]
    /\ last' = [op |-> "minimumTipAmount", send |-> n, result |-> minimumTipAmount]
    /\ UNCHANGED <<tips, tipsTotalAmounts, senderTipsTotalAmounts, minimumTipAmount,
                   feePercent, roles, balances, events, committed>>
    /\ UNCHANGED apiVars
    /\ UNCHANGED transaction

\* the read of the minimum or the submission of the tip throws (the node is
\* unreachable, the wallet cannot pay, `from` is not the wallet, the gas
\* estimate reverts): catch (txError)
SendThrows(n) ==
    LET txError == <<"error", sends[n].pc>>
    IN  /\ sends[n].pc \in {"minimumTipAmount", "tip"}
        /\ transaction' = [transaction EXCEPT !.error = txError]
        /\ sends' = [sends EXCEPT
                        ![n].pc = "returned",
                        ![n].result = [transactionHash |-> Undefined,
                                       receipt |-> Undefined, error |-> txError]]
        /\ last' = [op |-> "sendThrows", send |-> n]
        /\ UNCHANGED <<tips, tipsTotalAmounts, senderTipsTotalAmounts,
                       minimumTipAmount, feePercent, roles, balances, events,
                       committed>>
        /\ UNCHANGED apiVars

\* the tip of the send() call number n, run on the ledger W
tipOfSend(W, n) ==
    tip(W, transaction.wallet, sends[n].tipAmount, SenderOrWallet, sends[n].tipAmount,
        transaction.feeRecipients[1], transaction.senderCidBytes,
        transaction.recipientCidBytes)

\* the node takes the transaction: contractWithSigner.tip(...) resolves with
\* tipTx and send() sets transactionHash and runs up to its await of wait().
\* The gas estimate runs the tip on the state of the moment.
SendSubmits(n) ==
    /\ sends[n].pc = "tip"
    /\ SenderOrWallet = transaction.wallet
    /\ transaction.feeRecipients # <<>>
    /\ sends[n].tipAmount <= UINT256_MAX
    /\ balances[transaction.wallet] >= sends[n].tipAmount
    /\ tipOfSend(World, n).status = "ok"
    /\ transaction' = [transaction EXCEPT !.transactionHash = HashOf(n)]
    /\ sends' = [sends EXCEPT ![n].pc = "wait"]
    /\ last' = [op |-> "sendSubmits", send |-> n]
    /\ UNCHANGED <<tips, tipsTotalAmounts, senderTipsTotalAmounts, minimumTipAmount,
                   feePercent, roles, balances, events, committed>>
    /\ UNCHANGED apiVars

\* the transaction of the send() call number n is mined: the ledger runs tip
SendMined(n) ==
    /\ sends[n].pc = "wait"
    /\ balances[transaction.wallet] >= sends[n].tipAmount
    /\ LET res == tipOfSend(World, n)
       IN  /\ Commit(res.world)
           /\ last' = [op |-> "tip", status |-> res.status,
                       sender |-> transaction.wallet, value |-> sends[n].tipAmount,
                       recipient |-> SenderOrWallet, amount |-> sends[n].tipAmount,
                       send |-> n,
                       feeRecipient |-> transaction.feeRecipients[1],
                       senderCommentCid |-> transaction.senderCidBytes,
                       recipientCommentCid |-> transaction.recipientCidBytes]
           /\ committed' = IF res.status = "ok" THEN Append(committed, last')
                            ELSE committed
           /\ sends' = [sends EXCEPT ![n].pc = "mined", ![n].status = res.status]
    /\ UNCHANGED roles
    /\ UNCHANGED apiVars
    /\ UNCHANGED transaction

\* tipTx.wait() settles: send() sets receipt, or error in catch
\* (receiptError), and returns its result
SendWaitReturns(n) ==
    LET receiptError == <<"error", sends[n].status>>
    IN  /\ sends[n].pc = "mined"
        /\ IF sends[n].status = "ok"
           THEN /\ transaction' = [transaction EXCEPT !.receipt = ReceiptOf(n)]
                /\ sends' = [sends EXCEPT
                                ![n].pc = "returned",
                                ![n].result = [transactionHash |-> HashOf(n),
                                               receipt |-> ReceiptOf(n),
                                               error |-> Undefined]]
           ELSE /\ transaction' = [transaction EXCEPT !.error = receiptError]
                /\ sends' = [sends EXCEPT
                                ![n].pc = "returned",
                                ![n].result = [transactionHash |-> HashOf(n),
                                               receipt |-> Undefined,
                                               error |-> receiptError]]
        /\ last' = [op |-> "sendReturns", send |-> n]
        /\ UNCHANGED <<tips, tipsTotalAmounts, senderTipsTotalAmounts,
                       minimumTipAmount, feePercent, roles, balances, events,
                       committed>>
        /\ UNCHANGED apiVars

----------------------------------------------------------------------------
\* The send scenario: the contract as the tests deploy it, one tip transaction
\* of the wallet user1 sent up to MaxSends times, and a moderator who changes
\* the minimum tip amount meanwhile.

SendCreateTip ==
    \E sender \in {Undefined, <<USER1>>} :
       CreateTip(USER1, sender, <<MOD>>, QmA, Undefined)

SendSend == Len(sends) < MaxSends /\ Send

SendSendReadsMinimum == \E n \in 1..Len(sends) : SendReadsMinimum(n)

SendSendThrows == \E n \in 1..Len(sends) : SendThrows(n)

SendSendSubmits == \E n \in 1..Len(sends) : SendSubmits(n)

SendSendMined == \E n \in 1..Len(sends) : SendMined(n)

SendSendWaitReturns == \E n \in 1..Len(sends) : SendWaitReturns(n)

SendGrantRole == GrantRole(ADMIN, MODERATOR_ROLE, MOD)

SendSetMinimumTipAmount == \E v \in {0, 2, 3} : SetMinimumTipAmount(MOD, v)

SendNext ==
    \/ SendCreateTip
    \/ SendSend
    \/ SendSendReadsMinimum
    \/ SendSendThrows
    \/ SendSendSubmits
    \/ SendSendMined
    \/ SendSendWaitReturns
    \/ SendGrantRole
    \/ SendSetMinimumTipAmount

SpecSend == LedgerInit /\ [][SendNext]_vars

----------------------------------------------------------------------------
\* The claims.

\* everything but the record of the last call
state == <<tips, tipsTotalAmounts, senderTipsTotalAmounts, minimumTipAmount,
           feePercent, roles, balances, events>>

RECURSIVE SumAmounts(_)
SumAmounts(records) ==
    IF records = <<>> THEN 0 ELSE records[1].amount + SumAmounts(Tail(records))

\* C1: for every key, tipsTotalAmounts[key] is the sum of the amount fields of
\* the records of tips[key].
C1_TotalIsSumOfStoredAmounts ==
    \A key \in DOMAIN tips \cup DOMAIN tipsTotalAmounts :
        Load(tipsTotalAmounts, key, 0) = SumAmounts(Load(tips, key, <<>>))

Pay(b, to, value) == [b EXCEPT ![to] = @ + value]

\* C2: a successful tip moves amount out of the caller's balance, pays
\* floor(amount * feePercent / 100) to the fee recipient and the rest to the
\* recipient, with the feePercent of the state the call ran in.
C2_FeeSplit ==
    [][(last'.op = "tip" /\ last'.status = "ok") =>
          LET amount == last'.amount
              fee == (amount * feePercent) \div 100
              netPayment == amount - fee
          IN  /\ fee >= 0 /\ netPayment >= 0 /\ fee + netPayment = amount
              /\ balances' = Pay(Pay(Pay(balances, last'.sender, 0 - amount),
                                      last'.feeRecipient, fee),
                                  last'.recipient, netPayment)]_vars

\* a tip of 10 paid out at the 20 percent a moderator set after deployment
C2_Witness ==
    /\ last.op = "tip" /\ last.status = "ok"
    /\ last.amount = 10 /\ feePercent = 20 /\ feePercent \notin CtorFeePercents
    /\ balances[MOD] = 2

\* the checks of tip that come before its transfers pass
PassesChecks(call, W) ==
    /\ call.value >= W.minimumTipAmount
    /\ call.value = call.amount
    /\ call.amount * W.feePercent <= UINT256_MAX
    /\ (call.amount * W.feePercent) \div 100 <= call.amount

\* C3: a tip one of whose transfers fails aborts as a whole: no balance, no
\* list, no total and no event changes.
C3_TransferFailureAborts ==
    [][(/\ last'.op = "tip"
        /\ PassesChecks(last', World)
        /\ (last'.feeRecipient \in Rejecting \/ last'.recipient \in Rejecting)) =>
          (last'.status = "TransferFailed" /\ UNCHANGED state)]_vars

\* the recipient rejects its payment after a fee of 2 went to the fee recipient
C3_Witness ==
    /\ last.op = "tip" /\ last.status = "TransferFailed"
    /\ last.recipient \in Rejecting /\ last.feeRecipient \notin Rejecting
    /\ (last.amount * feePercent) \div 100 > 0

\* C4: a tip whose attached value is below minimumTipAmount fails with the
\* too-low error, whatever its amount argument, and changes nothing.
C4_TooLow ==
    [][(last'.op = "tip" /\ last'.value < minimumTipAmount) =>
          (last'.status = "Tip amount is too low" /\ UNCHANGED state)]_vars

\* a value below the minimum that also differs from amount
C4_Witness ==
    /\ last.op = "tip" /\ last.status = "Tip amount is too low"
    /\ last.value < minimumTipAmount /\ last.value # last.amount

\* C5: a tip whose attached value reaches the minimum but differs from amount
\* fails with the mismatch error and changes nothing.
C5_Mismatch ==
    [][(last'.op = "tip" /\ last'.value >= minimumTipAmount
            /\ last'.value # last'.amount) =>
          (last'.status = "Sent value doesn't match amount" /\ UNCHANGED state)]_vars

C5_Witness ==
    /\ last.op = "tip" /\ last.status = "Sent value doesn't match amount"
    /\ last.value >= minimumTipAmount /\ last.value # last.amount
    /\ events # <<>>

\* the list a tip call appends to
ListOf(call) ==
    Load(tips, tipKeyOf(call.recipientCommentCid, call.feeRecipient), <<>>)

\* C6: the record a successful tip stores holds the amount submitted, and a
\* tip whose amount does not fit 96 bits fails.
C6_StoredAmountIsSubmitted ==
    last.op = "tip" =>
        /\ last.status = "ok" => ListOf(last)[Len(ListOf(last))].amount = last.amount
        /\ last.amount > UINT96_MAX => last.status # "ok"

\* C7: a successful tip appends one record to the list of its key, carrying
\* the call's feeRecipient and senderCommentCid and the caller as sender, and
\* leaves every other list alone; a failed tip leaves every list alone.
C7_AppendsOneRecord ==
    [][last'.op = "tip" =>
          IF last'.status = "ok"
          THEN LET key == tipKeyOf(last'.recipientCommentCid, last'.feeRecipient)
                   old == Load(tips, key, <<>>)
               IN  /\ DOMAIN tips' = DOMAIN tips \cup {key}
                   /\ \A k \in DOMAIN tips \ {key} : tips'[k] = tips[k]
                   /\ Len(tips'[key]) = Len(old) + 1
                   /\ SubSeq(tips'[key], 1, Len(old)) = old
                   /\ tips'[key][Len(old) + 1].feeRecipient = last'.feeRecipient
                   /\ tips'[key][Len(old) + 1].senderCommentCid = last'.senderCommentCid
                   /\ tips'[key][Len(old) + 1].sender = last'.sender
          ELSE tips' = tips]_vars

\* a second record appended behind another caller's, the caller being neither
\* the recipient nor the fee recipient
C7_Witness ==
    /\ last.op = "tip" /\ last.status = "ok"
    /\ Len(ListOf(last)) = 2
    /\ ListOf(last)[1].sender # last.sender
    /\ last.sender \notin {last.recipient, last.feeRecipient}

RECURSIVE SumCommitted(_, _, _, _, _)
SumCommitted(calls, senderCommentCid, sender, recipientCommentCid, feeRecipient) ==
    IF calls = <<>> THEN 0
    ELSE (IF /\ calls[1].senderCommentCid = senderCommentCid
             /\ calls[1].sender = sender
             /\ calls[1].recipientCommentCid = recipientCommentCid
             /\ calls[1].feeRecipient = feeRecipient
          THEN calls[1].amount ELSE 0)
         + SumCommitted(Tail(calls), senderCommentCid, sender, recipientCommentCid,
                        feeRecipient)

\* C8: getSenderTipsTotalAmount(sc, s, rc, [f]) is the sum of the amounts of
\* the successful tips made by s with sc, rc and f, and of no other tip.
C8_SenderTotal ==
    last.op = "getSenderTipsTotalAmount" =>
        /\ last.status = "ok"
        /\ last.result = SumCommitted(committed, last.senderCommentCid, last.sender,
                                       last.recipientCommentCid, last.feeRecipients[1])

\* a sender total that counts one of two committed tips
C8_Witness ==
    /\ last.op = "getSenderTipsTotalAmount" /\ last.status = "ok"
    /\ Len(committed) = 2
    /\ last.result = committed[1].amount
    /\ last.result > 0

\* tips[key(cid, f)] for each f of feeRecipients in turn, back to back
RECURSIVE Concatenation(_, _)
Concatenation(recipientCommentCid, feeRecipients) ==
    IF feeRecipients = <<>> THEN <<>>
    ELSE Load(tips, tipKeyOf(recipientCommentCid, feeRecipients[1]), <<>>)
         \o Concatenation(recipientCommentCid, Tail(feeRecipients))

\* the elements of s at the positions [offset, offset + limit), from 0
Slice(s, offset, limit) ==
    SubSeq(s, offset + 1, IF offset + limit < Len(s) THEN offset + limit ELSE Len(s))

AmountsOf(records) == [n \in 1..Len(records) |-> records[n].amount]

\* C9: getTips returns the elements at the positions [offset, offset + limit)
\* of the concatenation of the lists of its feeRecipients, for every
\* feeRecipients array, offset and limit.
C9_GetTipsIsSlice ==
    last.op = "getTips" =>
        /\ last.status = "ok"
        /\ last.result = Slice(Concatenation(last.recipientCommentCid, last.feeRecipients),
                                last.offset, last.limit)

\* C10: with offset below the count and offset + limit above it, getTips and
\* getTipsAmounts return the count - offset last records and do not fail.
C10_TruncatedTail ==
    LET all == Concatenation(last.recipientCommentCid, last.feeRecipients)
        tail == SubSeq(all, last.offset + 1, Len(all))
    IN  (/\ last.op \in {"getTips", "getTipsAmounts"}
         /\ last.offset < Len(all)
         /\ last.offset + last.limit > Len(all)) =>
            /\ last.status = "ok"
            /\ last.result = IF last.op = "getTips" THEN tail ELSE AmountsOf(tail)

\* C11: getTips and getTipsAmounts return the empty array, and do not fail,
\* when offset is at or beyond the number of tips of the feeRecipients (an
\* empty feeRecipients array and addresses without tips included) and when
\* limit is 0.
C11_EmptyPage ==
    (/\ last.op \in {"getTips", "getTipsAmounts"}
     /\ \/ last.offset >= Len(Concatenation(last.recipientCommentCid, last.feeRecipients))
        \/ last.limit = 0) =>
        (last.status = "ok" /\ last.result = <<>>)

\* an offset equal to a count of two or more, with the largest limit
C11_Witness ==
    /\ last.op = "getTips" /\ last.status = "ok" /\ last.result = <<>>
    /\ last.offset = Len(Concatenation(last.recipientCommentCid, last.feeRecipients))
    /\ last.offset >= 2
    /\ last.limit = UINT256_MAX

\* C12: getTipsAmounts returns, for the arguments of a getTips call, an array
\* of the length of the getTips result whose i-th element is the amount of
\* the i-th record; the one fails exactly when the other does.
C12_AmountsOfGetTips ==
    /\ last.op = "getTipsAmounts" =>
          LET res == getTips(World, last.recipientCommentCid, last.feeRecipients,
                             last.offset, last.limit)
          IN  /\ last.status = res.status
              /\ Len(last.result) = Len(res.result)
              /\ \A n \in 1..Len(res.result) : last.result[n] = res.result[n].amount
    /\ last.op = "getTips" =>
          LET res == getTipsAmounts(World, last.recipientCommentCid, last.feeRecipients,
                                    last.offset, last.limit)
          IN  /\ res.status = last.status
              /\ Len(res.result) = Len(last.result)
              /\ \A n \in 1..Len(last.result) : res.result[n] = last.result[n].amount

\* two different amounts read from offset 1, across two fee recipients
C12_Witness ==
    /\ last.op = "getTipsAmounts" /\ last.status = "ok"
    /\ last.offset = 1 /\ Len(last.result) = 2
    /\ last.result[1] # last.result[2]
    /\ Len(Load(tips, tipKeyOf(last.recipientCommentCid, last.feeRecipients[1]), <<>>)) = 2

\* the pages getTips(cid, F, k * p, p) for k, k + 1, ... up to the first empty
\* page, back to back; a failed page ends the reading with a mark
RECURSIVE Pages(_, _, _, _)
Pages(recipientCommentCid, feeRecipients, p, k) ==
    LET page == getTips(World, recipientCommentCid, feeRecipients, k * p, p)
    IN  IF k * p > UINT256_MAX \/ page.status # "ok" THEN <<"failed">>
        ELSE IF page.result = <<>> THEN <<>>
        ELSE page.result \o Pages(recipientCommentCid, feeRecipients, p, k + 1)

PageSizes == {1, 2, 3, UINT256_MAX - 1, UINT256_MAX}

\* C13: in every state, getTips(cid, F, 0, count) is the whole history of F
\* in order, and so are the pages of any size p >= 1 read from offset 0 up to
\* the first empty page.
C13_PagesCoverHistory ==
    \A feeRecipients \in FeeRecipientLists :
        LET all == Concatenation(ZeroHash, feeRecipients)
            whole == getTips(World, ZeroHash, feeRecipients, 0, Len(all))
        IN  /\ whole.status = "ok" /\ whole.result = all
            /\ \A p \in PageSizes : Pages(ZeroHash, feeRecipients, p, 0) = all

\* the second page of size 1 of a history of three records in two lists
C13_Witness ==
    /\ last.op = "getTips" /\ last.status = "ok"
    /\ last.offset = 1 /\ last.limit = 1
    /\ Len(last.feeRecipients) = 2
    /\ Len(Concatenation(last.recipientCommentCid, last.feeRecipients)) = 3
    /\ last.result = <<Concatenation(last.recipientCommentCid, last.feeRecipients)[2]>>
    /\ Pages(last.recipientCommentCid, last.feeRecipients, 1, 0)
          = Concatenation(last.recipientCommentCid, last.feeRecipients)

\* the sum over the positions of feeRecipients of tipsTotalAmounts[key(cid, f)]
RECURSIVE SumTotals(_, _)
SumTotals(recipientCommentCid, feeRecipients) ==
    IF feeRecipients = <<>> THEN 0
    ELSE Load(tipsTotalAmounts, tipKeyOf(recipientCommentCid, feeRecipients[1]), 0)
         + SumTotals(recipientCommentCid, Tail(feeRecipients))

\* C14: getTipsTotalAmount(cid, F) is the sum over the positions of F of
\* tipsTotalAmounts[key(cid, F[i])]: an address listed twice counts twice, an
\* address without tips counts 0, an empty F gives 0.
C14_TotalOverPositions ==
    last.op = "getTipsTotalAmount" =>
        /\ last.status = "ok"
        /\ last.result = SumTotals(last.recipientCommentCid, last.feeRecipients)
        /\ last.feeRecipients = <<>> => last.result = 0

\* an address listed twice, with a total of two tips counted twice
C14_Witness ==
    /\ last.op = "getTipsTotalAmount" /\ last.status = "ok"
    /\ Len(last.feeRecipients) = 2 /\ last.feeRecipients[1] = last.feeRecipients[2]
    /\ Len(ListOf([recipientCommentCid |-> last.recipientCommentCid,
                   feeRecipient |-> last.feeRecipients[1]])) = 2
    /\ last.result = 2 * Load(tipsTotalAmounts,
                              tipKeyOf(last.recipientCommentCid, last.feeRecipients[1]), 0)
    /\ last.result > 0

\* C15: for arrays of equal length getTipsTotalAmounts(cids, Fs) has one entry
\* per element of cids, the i-th being getTipsTotalAmount(cids[i], Fs[i]);
\* getTipsTotalAmountsSameFeeRecipients(cids, F) has one entry per element of
\* cids, the i-th being getTipsTotalAmount(cids[i], F).
C15_BatchedTotals ==
    /\ (/\ last.op = "getTipsTotalAmounts"
        /\ Len(last.recipientCommentCids) = Len(last.feeRecipients)) =>
          /\ last.status = "ok"
          /\ Len(last.result) = Len(last.recipientCommentCids)
          /\ \A i \in 1..Len(last.recipientCommentCids) :
                LET single == getTipsTotalAmount(World, last.recipientCommentCids[i],
                                                 last.feeRecipients[i])
                IN  single.status = "ok" /\ last.result[i] = single.result
    /\ last.op = "getTipsTotalAmountsSameFeeRecipients" =>
          /\ last.status = "ok"
          /\ Len(last.result) = Len(last.recipientCommentCids)
          /\ \A i \in 1..Len(last.recipientCommentCids) :
                LET single == getTipsTotalAmount(World, last.recipientCommentCids[i],
                                                 last.feeRecipients)
                IN  single.status = "ok" /\ last.result[i] = single.result

\* a comment id listed twice with two feeRecipients arrays, and two totals
\* that differ
C15_Witness ==
    /\ last.op = "getTipsTotalAmounts" /\ last.status = "ok"
    /\ Len(last.recipientCommentCids) = 2
    /\ last.recipientCommentCids[1] = last.recipientCommentCids[2]
    /\ Len(last.result) = 2
    /\ last.result[1] > 0 /\ last.result[2] > last.result[1]

\* C16: getSenderTipsTotalAmounts(sc, s, cids, Fs)[i] is
\* getSenderTipsTotalAmount(sc, s, cids[i], Fs[i]) and
\* getSenderTipsTotalAmountsSameFeeRecipients(sc, s, cids, F)[i] is
\* getSenderTipsTotalAmount(sc, s, cids[i], F), for every index i.
C16_BatchedSenderTotals ==
    /\ (/\ last.op = "getSenderTipsTotalAmounts"
        /\ Len(last.recipientCommentCids) = Len(last.feeRecipients)) =>
          /\ last.status = "ok"
          /\ Len(last.result) = Len(last.recipientCommentCids)
          /\ \A i \in 1..Len(last.recipientCommentCids) :
                LET single == getSenderTipsTotalAmount(World, last.senderCommentCid,
                                  last.sender, last.recipientCommentCids[i],
                                  last.feeRecipients[i])
                IN  single.status = "ok" /\ last.result[i] = single.result
    /\ last.op = "getSenderTipsTotalAmountsSameFeeRecipients" =>
          /\ last.status = "ok"
          /\ Len(last.result) = Len(last.recipientCommentCids)
          /\ \A i \in 1..Len(last.recipientCommentCids) :
                LET single == getSenderTipsTotalAmount(World, last.senderCommentCid,
                                  last.sender, last.recipientCommentCids[i],
                                  last.feeRecipients)
                IN  single.status = "ok" /\ last.result[i] = single.result

\* two comment ids with shared fee recipients: the caller's total under the
\* second is below the total of all callers, the one under the first is 0
C16_Witness ==
    /\ last.op = "getSenderTipsTotalAmountsSameFeeRecipients" /\ last.status = "ok"
    /\ Len(last.recipientCommentCids) = 2
    /\ last.recipientCommentCids[1] # last.recipientCommentCids[2]
    /\ last.result[1] = 0 /\ last.result[2] > 0
    /\ last.result[2] < SumTotals(last.recipientCommentCids[2], last.feeRecipients)

\* C17: getTipsTotalAmounts and getSenderTipsTotalAmounts fail with the
\* array length mismatch error, and return nothing, when the array of comment
\* ids and the array of feeRecipients arrays differ in length, and do not fail
\* with it when the lengths are equal.
C17_LengthMismatch ==
    last.op \in {"getTipsTotalAmounts", "getSenderTipsTotalAmounts"} =>
        IF Len(last.recipientCommentCids) # Len(last.feeRecipients)
        THEN last.status = "Arrays length mismatch" /\ last.result = <<>>
        ELSE last.status # "Arrays length mismatch"

\* one comment id with two feeRecipients arrays, the first of which has a
\* total under that comment id
C17_Witness ==
    /\ last.op = "getTipsTotalAmounts" /\ last.status = "Arrays length mismatch"
    /\ Len(last.recipientCommentCids) = 1 /\ Len(last.feeRecipients) = 2
    /\ SumTotals(last.recipientCommentCids[1], last.feeRecipients[1]) > 0

\* C18: setFeePercent(v) called by a holder of the moderator role succeeds
\* and sets feePercent to v exactly when 1 <= v <= 20; with any other v it
\* fails with the range error and feePercent keeps its value.
C18_FeePercentRange ==
    [][(last'.op = "setFeePercent" /\ <<MODERATOR_ROLE, last'.sender>> \in roles) =>
          IF 1 <= last'.value /\ last'.value <= 20
          THEN last'.status = "ok" /\ feePercent' = last'.value
          ELSE /\ last'.status = "Fee percent must be between 1 and 20"
               /\ UNCHANGED state]_vars

\* a moderator's setFeePercent(0) refused after its setFeePercent(20)
C18_Witness ==
    /\ last.op = "setFeePercent" /\ last.sender = MOD
    /\ last.status = "Fee percent must be between 1 and 20"
    /\ last.value = 0
    /\ feePercent = 20 /\ feePercent \notin CtorFeePercents

\* C19: in every reachable state, whatever the constructor arguments,
\* feePercent lies in 1..20.
C19_FeePercentInRange == feePercent >= 1 /\ feePercent <= 20

AdminHolders == {a \in Address : <<DEFAULT_ADMIN_ROLE, a>> \in roles}

C22_TipFrame ==
    [][(last'.op = "tip" /\ last'.status = "ok") =>
          /\ \A rc \in Cid, f \in Address :
                <<rc, f>> # <<last'.recipientCommentCid, last'.feeRecipient>> =>
                   /\ Load(tips', tipKeyOf(rc, f), <<>>) = Load(tips, tipKeyOf(rc, f), <<>>)
                   /\ Load(tipsTotalAmounts', tipKeyOf(rc, f), 0)
                         = Load(tipsTotalAmounts, tipKeyOf(rc, f), 0)
          /\ \A sc \in Cid, s \in Address, rc \in Cid, f \in Address :
                <<sc, s, rc, f>> # <<last'.senderCommentCid, last'.sender,
                                     last'.recipientCommentCid, last'.feeRecipient>> =>
                   Load(senderTipsTotalAmounts', senderTipKeyOf(sc, s, rc, f), 0)
                      = Load(senderTipsTotalAmounts, senderTipKeyOf(sc, s, rc, f), 0)
          /\ Cardinality(DOMAIN tips') <= Cardinality(DOMAIN tips) + 1
          /\ Cardinality(DOMAIN tipsTotalAmounts') <= Cardinality(DOMAIN tipsTotalAmounts) + 1
          /\ Cardinality(DOMAIN senderTipsTotalAmounts')
                <= Cardinality(DOMAIN senderTipsTotalAmounts) + 1
          /\ \A a \in Address \ {last'.sender, last'.recipient, last'.feeRecipient} :
                balances'[a] = balances[a]
          /\ UNCHANGED <<minimumTipAmount, feePercent, roles>>]_vars

\* a second tip that differs from the first in its fee recipient only: the
\* first one's list and totals are still there
C22_Witness ==
    /\ last.op = "tip" /\ last.status = "ok"
    /\ Len(committed) = 2
    /\ committed[1].feeRecipient # last.feeRecipient
    /\ committed[1].recipientCommentCid = last.recipientCommentCid
    /\ committed[1].sender = last.sender
    /\ committed[1].senderCommentCid = last.senderCommentCid
    /\ Len(ListOf(committed[1])) = 1 /\ Len(ListOf(last)) = 1
    /\ Cardinality(DOMAIN senderTipsTotalAmounts) = 2

\* C23: across every operation every tips list keeps its content as a prefix
\* and no tipsTotalAmounts or senderTipsTotalAmounts value decreases.
C23_AppendOnly ==
    [][/\ \A k \in DOMAIN tips :
             /\ k \in DOMAIN tips'
             /\ Len(tips'[k]) >= Len(tips[k])
             /\ SubSeq(tips'[k], 1, Len(tips[k])) = tips[k]
       /\ \A k \in DOMAIN tipsTotalAmounts :
             k \in DOMAIN tipsTotalAmounts' /\ tipsTotalAmounts'[k] >= tipsTotalAmounts[k]
       /\ \A k \in DOMAIN senderTipsTotalAmounts :
             /\ k \in DOMAIN senderTipsTotalAmounts'
             /\ senderTipsTotalAmounts'[k] >= senderTipsTotalAmounts[k]]_vars

\* a smaller tip recorded behind a larger one under the same key
C23_Witness ==
    /\ last.op = "tip" /\ last.status = "ok"
    /\ Len(ListOf(last)) = 2
    /\ ListOf(last)[1].amount > last.amount
    /\ Load(tipsTotalAmounts, tipKeyOf(last.recipientCommentCid, last.feeRecipient), 0)
          > ListOf(last)[1].amount

\* the committed tips of the key (rc, f), in the order they ran
RECURSIVE CommittedOfKey(_, _, _)
CommittedOfKey(calls, recipientCommentCid, feeRecipient) ==
    IF calls = <<>> THEN <<>>
    ELSE (IF /\ calls[1].recipientCommentCid = recipientCommentCid
             /\ calls[1].feeRecipient = feeRecipient
          THEN <<calls[1]>> ELSE <<>>)
         \o CommittedOfKey(Tail(calls), recipientCommentCid, feeRecipient)

\* C24: whatever the order the submitted tips ran in, every committed tip is
\* applied in full: each tipsTotalAmounts and senderTipsTotalAmounts value is
\* the sum of the committed amounts of its key, a sum that does not depend on
\* the order, and each list holds one record per committed tip of its key, in
\* the order of execution.
C24_TotalsAreSumsOfCommitted ==
    /\ DOMAIN tipsTotalAmounts =
          {tipKeyOf(committed[n].recipientCommentCid, committed[n].feeRecipient) :
              n \in 1..Len(committed)}
    /\ DOMAIN senderTipsTotalAmounts =
          {senderTipKeyOf(committed[n].senderCommentCid, committed[n].sender,
                          committed[n].recipientCommentCid, committed[n].feeRecipient) :
              n \in 1..Len(committed)}
    /\ \A n \in 1..Len(committed) :
          LET c == committed[n]
              ofKey == CommittedOfKey(committed, c.recipientCommentCid, c.feeRecipient)
          IN  /\ tipsTotalAmounts[tipKeyOf(c.recipientCommentCid, c.feeRecipient)]
                    = SumAmounts(ofKey)
              /\ senderTipsTotalAmounts[senderTipKeyOf(c.senderCommentCid, c.sender,
                                            c.recipientCommentCid, c.feeRecipient)]
                    = SumCommitted(committed, c.senderCommentCid, c.sender,
                                   c.recipientCommentCid, c.feeRecipient)
              /\ Len(ListOf(c)) = Len(ofKey)
              /\ \A m \in 1..Len(ofKey) :
                    /\ ListOf(c)[m].sender = ofKey[m].sender
                    /\ ListOf(c)[m].senderCommentCid = ofKey[m].senderCommentCid

\* two callers' tips of different amounts under one key and one sender
\* comment id, the second caller's first
C24_Witness ==
    /\ Len(committed) = 2
    /\ committed[1].sender = USER2 /\ committed[2].sender = USER1
    /\ committed[1].recipientCommentCid = committed[2].recipientCommentCid
    /\ committed[1].feeRecipient = committed[2].feeRecipient
    /\ committed[1].senderCommentCid = committed[2].senderCommentCid
    /\ committed[1].amount # committed[2].amount
    /\ tipsTotalAmounts[tipKeyOf(committed[1].recipientCommentCid,
                                 committed[1].feeRecipient)]
          = committed[1].amount + committed[2].amount
    /\ last.op = "tip" /\ last.status = "ok"

\* the TipEvent of a committed tip
EventOf(call) ==
    [sender |-> call.sender, recipient |-> call.recipient, amount |-> call.amount,
     feeRecipient |-> call.feeRecipient,
     recipientCommentCid |-> call.recipientCommentCid,
     senderCommentCid |-> call.senderCommentCid]

C26_SetterFrame ==
    [][/\ last'.op = "setMinimumTipAmount" =>
             UNCHANGED <<tips, tipsTotalAmounts, senderTipsTotalAmounts, feePercent,
                         roles, balances, events>>
       /\ last'.op = "setFeePercent" =>
             UNCHANGED <<tips, tipsTotalAmounts, senderTipsTotalAmounts,
                         minimumTipAmount, roles, balances, events>>]_vars

\* the fee set to 20 after a tip was recorded and the minimum was set to 10
C26_Witness ==
    /\ last.op = "setFeePercent" /\ last.status = "ok" /\ last.value = 20
    /\ feePercent = 20
    /\ minimumTipAmount = 10
    /\ Len(events) >= 1
    /\ tips # EmptyMapping

QueryOps ==
    {"getTipsTotalAmount", "getTipsTotalAmounts", "getTipsTotalAmountsSameFeeRecipients",
     "getTipsAmounts", "getTips", "getSenderTipsTotalAmount",
     "getSenderTipsTotalAmounts", "getSenderTipsTotalAmountsSameFeeRecipients"}

\* what the query of the record call answers in the state W
Answer(call, W) ==
    CASE call.op = "getTipsTotalAmount" ->
            getTipsTotalAmount(W, call.recipientCommentCid, call.feeRecipients)
      [] call.op = "getTipsTotalAmounts" ->
            getTipsTotalAmounts(W, call.recipientCommentCids, call.feeRecipients)
      [] call.op = "getTipsTotalAmountsSameFeeRecipients" ->
            getTipsTotalAmountsSameFeeRecipients(W, call.recipientCommentCids,
                                                 call.feeRecipients)
      [] call.op = "getTipsAmounts" ->
            getTipsAmounts(W, call.recipientCommentCid, call.feeRecipients,
                           call.offset, call.limit)
      [] call.op = "getTips" ->
            getTips(W, call.recipientCommentCid, call.feeRecipients,
                    call.offset, call.limit)
      [] call.op = "getSenderTipsTotalAmount" ->
            getSenderTipsTotalAmount(W, call.senderCommentCid, call.sender,
                                     call.recipientCommentCid, call.feeRecipients)
      [] call.op = "getSenderTipsTotalAmounts" ->
            getSenderTipsTotalAmounts(W, call.senderCommentCid, call.sender,
                                      call.recipientCommentCids, call.feeRecipients)
      [] call.op = "getSenderTipsTotalAmountsSameFeeRecipients" ->
            getSenderTipsTotalAmountsSameFeeRecipients(W, call.senderCommentCid,
                call.sender, call.recipientCommentCids, call.feeRecipients)

CachedFor(c) ==
    {k \in DOMAIN comments :
        /\ comments[k].feeRecipients = c.feeRecipients
        /\ comments[k].recipientCommentCid = c.recipientCommentCid}

\* the createComment calls of the pair of the client call c that have returned
CompletedFor(c) ==
    {m \in 1..Len(clientCalls) :
        /\ clientCalls[m].op = "createComment"
        /\ clientCalls[m].status = "resolved"
        /\ clientCalls[m].feeRecipients = c.feeRecipients
        /\ clientCalls[m].recipientCommentCid = c.recipientCommentCid}

\* C28: a createComment call for a pair (feeRecipients, recipientCommentCid)
\* of which a createComment call has completed and whose cache entry has not
\* expired makes no contract call, queues no request, sets no timer, and
\* returns the tipsTotalAmount the cache holds.
C28_CachedCommentServed ==
    [][(last'.op = "createComment" /\ Len(clientCalls') = Len(clientCalls) + 1) =>
          LET c == clientCalls'[Len(clientCalls')]
          IN  \A k \in CachedFor(c) :
                 CompletedFor(c) # {} =>
                    /\ c.status = "resolved"
                    /\ c.result = comments[k].tipsTotalAmount
                    /\ UNCHANGED <<pendingBulkRequests, debouncedBulkCalls, timers,
                                   inFlight, mockBulkCallCount, comments>>]_vars

\* two createComment calls for the comment QmA, the first answered by the
\* contract with a total of 10 and the second from the cache, with one
\* contract call made in all
C28_Witness ==
    /\ Len(clientCalls) = 2
    /\ \A n \in 1..2 :
          /\ clientCalls[n].op = "createComment"
          /\ clientCalls[n].recipientCommentCid = QmA
          /\ clientCalls[n].status = "resolved"
          /\ clientCalls[n].result = 10
    /\ last.op = "createComment" /\ last.cached
    /\ mockBulkCallCount = 1

\* the client call number n is the first createComment made after the cached
\* comment of its pair was removed
AskedAfterRemoval(n) ==
    /\ clientCalls[n].op = "createComment"
    /\ clientCalls[n].afterRemoval
    /\ \A m \in 1..(n - 1) :
          (/\ clientCalls[m].op = "createComment"
           /\ clientCalls[m].feeRecipients = clientCalls[n].feeRecipients
           /\ clientCalls[m].recipientCommentCid = clientCalls[n].recipientCommentCid)
             => ~clientCalls[m].afterRemoval

\* C29: no cached comment is older than cache.maxAge milliseconds; and a
\* createComment made after the removal of the cached comment of its pair
\* does not return the old value but waits for the contract, and when its
\* debounce timer fires a contract call is made that carries its request.
C29_ExpiredEntryAskedAgain ==
    /\ [](\A k \in DOMAIN comments : age[k] <= cache.maxAge)
    /\ [][(/\ last'.op = "createComment"
           /\ Len(clientCalls') = Len(clientCalls) + 1
           /\ CachedFor(clientCalls'[Len(clientCalls')]) = {})
             => clientCalls'[Len(clientCalls')].status = "pending"]_vars
    /\ [][(/\ last'.op = "executeBulkCall"
           /\ timers' # timers
           /\ AskedAfterRemoval(last'.by))
             => /\ mockBulkCallCount' = mockBulkCallCount + 1
                /\ \E n \in 1..Len(last'.requests) :
                      last'.requests[n].call = last'.by]_vars

\* the total the contract holds for the comment of a request
TotalFor(request) ==
    getTipsTotalAmount(World, cidToBytes32(request.recipientCommentCid),
                       request.feeRecipients).result

\* C30: when a debounce timer fires and a contract call is made, the call
\* carries every request issued within the last 100 ms, whatever its comment
\* (no such request is left waiting on a timer of its own); and when the
\* contract answers, every request collected for the call is settled with
\* the total of its own comment.
C30_WindowServedByOneCall ==
    /\ [][(last'.op = "executeBulkCall" /\ mockBulkCallCount' = mockBulkCallCount + 1)
             => \A t \in timers' :
                   t.kind = "debounce" =>
                      \E n \in 1..Len(last'.requests) : last'.requests[n].call = t.by]_vars
    /\ [][(last'.op = "contractReturns" /\ inFlight' # inFlight)
             => \A n \in 1..Len(last'.requests) :
                   LET request == last'.requests[n]
                   IN  /\ clientCalls'[request.call].status = "resolved"
                       /\ clientCalls'[request.call].result = TotalFor(request)]_vars

\* C37: when the contract answers a refresh, the updateTipsTotalAmount call
\* that asked for it resolves with the total just read, whether or not the
\* cached comment is still there.
C37_RefreshSurvivesExpiry ==
    [][(/\ last'.op = "contractReturns"
        /\ inFlight' # inFlight
        /\ last'.requests # <<>>
        /\ clientCalls[last'.requests[1].call].op = "updateTipsTotalAmount"
        /\ clientCalls[last'.requests[1].call].status = "pending")
          => /\ clientCalls'[last'.requests[1].call].status = "resolved"
             /\ clientCalls'[last'.requests[1].call].result = last'.result]_vars

\* the sum of senderTipsTotalAmounts over the (senderCommentCid, sender)
\* combinations of senders, for one (recipientCommentCid, feeRecipient)
RECURSIVE SumSenderTotals(_, _, _)
SumSenderTotals(senders, recipientCommentCid, feeRecipient) ==
    IF senders = {} THEN 0
    ELSE LET s == CHOOSE s \in senders : TRUE
         IN  Load(senderTipsTotalAmounts,
                  senderTipKeyOf(s[1], s[2], recipientCommentCid, feeRecipient), 0)
             + SumSenderTotals(senders \ {s}, recipientCommentCid, feeRecipient)

\* C35: for every (recipientCommentCid, feeRecipient) the sender totals of
\* all (senderCommentCid, sender) combinations add up to the total of the
\* pair.
C35_SenderTotalsAddUp ==
    \A recipientCommentCid \in Cid, feeRecipient \in Address :
        SumSenderTotals(Cid \X Address, recipientCommentCid, feeRecipient)
            = Load(tipsTotalAmounts, tipKeyOf(recipientCommentCid, feeRecipient), 0)

\* two senders have tipped the same comment under the same fee recipient,
\* with different amounts
C35_Witness ==
    /\ Len(committed) = 2
    /\ committed[1].sender # committed[2].sender
    /\ committed[1].recipientCommentCid = committed[2].recipientCommentCid
    /\ committed[1].feeRecipient = committed[2].feeRecipient
    /\ committed[1].amount # committed[2].amount
    /\ Load(tipsTotalAmounts, tipKeyOf(committed[1].recipientCommentCid,
                                       committed[1].feeRecipient), 0)
          = committed[1].amount + committed[2].amount

\* the rearrangements of a list
Rearrangements(list) ==
    {G \in [1..Len(list) -> {list[n] : n \in 1..Len(list)}] :
        \E p \in [1..Len(list) -> 1..Len(list)] :
            /\ \A i, j \in 1..Len(list) : p[i] = p[j] => i = j
            /\ \A i \in 1..Len(list) : G[i] = list[p[i]]}

\* C36: getTipsTotalAmount and getSenderTipsTotalAmount give, for every
\* rearrangement of the feeRecipients they were called with, the answer they
\* gave; so they do for the sorted list the client builds its cache key from.
C36_TotalsIgnoreOrder ==
    /\ last.op = "getTipsTotalAmount" =>
          \A G \in Rearrangements(last.feeRecipients) \cup {sort(last.feeRecipients)} :
             getTipsTotalAmount(World, last.recipientCommentCid, G)
                = [status |-> last.status, result |-> last.result]
    /\ last.op = "getSenderTipsTotalAmount" =>
          \A G \in Rearrangements(last.feeRecipients) \cup {sort(last.feeRecipients)} :
             getSenderTipsTotalAmount(World, last.senderCommentCid, last.sender,
                                      last.recipientCommentCid, G)
                = [status |-> last.status, result |-> last.result]

\* a total asked for [admin, mod], listed against their order, when the two
\* fee recipients hold different totals for the comment
C36_Witness ==
    /\ last.op = "getTipsTotalAmount" /\ last.status = "ok"
    /\ last.feeRecipients = <<ADMIN, MOD>>
    /\ sort(last.feeRecipients) = last.feeRecipients
    /\ <<MOD, ADMIN>> \in Rearrangements(last.feeRecipients)
    /\ Load(tipsTotalAmounts, tipKeyOf(last.recipientCommentCid, ADMIN), 0) = 1
    /\ Load(tipsTotalAmounts, tipKeyOf(last.recipientCommentCid, MOD), 0) = 10
    /\ last.result = 11

\* C34, as stated: no tip call changes the contract's own balance, and a
\* successful tip lowers the caller's balance by exactly amount, whoever the
\* recipient and the fee recipient are.
C34_CallerPaysAmount ==
    [][last'.op = "tip" =>
          /\ balances'[THIS] = balances[THIS]
          /\ last'.status = "ok" =>
                balances'[last'.sender] = balances[last'.sender] - last'.amount]_vars

\* C34: no tip call changes the contract's own balance (it stays zero), and
\* a successful tip pays out the whole attached value as fee plus net payment:
\* the caller's balance goes down by amount less what the caller itself
\* receives as recipient or as fee recipient, and an account that is both
\* recipient and fee recipient, and not the caller, receives the whole amount.
C34_TipConservesValue ==
    [][last'.op = "tip" =>
          /\ balances'[THIS] = balances[THIS]
          /\ balances'[THIS] = 0
          /\ last'.status = "ok" =>
                LET amount == last'.amount
                    fee == (amount * feePercent) \div 100
                    netPayment == amount - fee
                    sender == last'.sender
                IN  /\ last'.value = amount
                    /\ balances'[sender] =
                          balances[sender] - amount
                             + (IF last'.feeRecipient = sender THEN fee ELSE 0)
                             + (IF last'.recipient = sender THEN netPayment ELSE 0)
                    /\ (last'.feeRecipient = last'.recipient /\ last'.recipient # sender)
                          => balances'[last'.recipient]
                                = balances[last'.recipient] + amount
                    /\ (sender \notin {last'.recipient, last'.feeRecipient})
                          => balances'[sender] = balances[sender] - amount]_vars

\* a caller that tipped its own address with another account as the fee
\* recipient is down by the fee alone
C34_Witness ==
    /\ last.op = "tip" /\ last.status = "ok"
    /\ last.sender = last.recipient /\ last.feeRecipient # last.sender
    /\ Len(committed) = 1
    /\ (last.amount * feePercent) \div 100 = 1
    /\ balances[last.sender] = InitialBalance - 1
    /\ balances[last.feeRecipient] = 1
    /\ balances[THIS] = 0


MinesSend(n) ==
    /\ n <= Len(sends)
    /\ sends[n].pc = "wait"
    /\ sends'[n].pc = "mined"

C32_ObjectMirrorsResult ==
    /\ (transaction # NoTransaction /\ sends = <<>>) =>
          /\ transaction.transactionHash = Undefined
          /\ transaction.receipt = Undefined
          /\ transaction.error = Undefined
    /\ \A n \in 1..Len(sends) : sends[n].pc = "returned" => sends[n].result # Undefined
    /\ last.op \in {"sendThrows", "sendReturns"} =>
          LET result == sends[last.send].result
          IN  /\ transaction.transactionHash = result.transactionHash
              /\ transaction.receipt = result.receipt
              /\ transaction.error = result.error
              /\ transaction.receipt # Undefined => transaction.error = Undefined
              /\ transaction.error # Undefined => transaction.receipt = Undefined


\* The client scenario under the scheduling of the event loop: a timer that
\* is due fires, time passes while no timer is due, and a contract call that
\* was made comes back, with its answer or with an error.  Requests stop
\* arriving since a run makes MaxApiCalls of them at most.
SpecApiFair ==
    /\ LedgerInit
    /\ [][ApiNext]_vars
    /\ WF_vars(ApiExecuteBulkCall)
    /\ WF_vars(ApiCacheExpires)
    /\ WF_vars(TimePasses)
    /\ WF_vars(ApiContractReturns \/ ApiContractFails)

\* the client call number n has resolved with a total or rejected with the
\* error of the contract call
Settled(n) ==
    /\ n <= Len(clientCalls)
    /\ \/ clientCalls[n].status = "resolved"
       \/ clientCalls[n].status = "rejected" /\ clientCalls[n].result = "Error"

\* C31: every createComment and updateTipsTotalAmount call eventually
\* settles, resolving with a total or rejecting with the contract error,
\* provided the contract call returns and requests stop arriving, whatever
\* the interleaving of requests, timers and answers.  Violated: of several
\* calls for one key that share a contract call only the first is resolved,
\* and a call that arrives while the key's contract call is in flight is
\* dropped with the array the finally block deletes.
C31_EveryCallSettles ==
    \A n \in 1..MaxApiCalls : (n <= Len(clientCalls)) ~> Settled(n)

====
